---------------------------- MODULE Spec2Model ----------------------------
(***************************************************************************)
(* A model of src/meta/constraints.py, the generator that reads FlatZinc   *)
(* predicate declarations and emits one Rust unit per predicate plus the   *)
(* aggregate units.                                                        *)
(*                                                                         *)
(* A Python str is a sequence of one-character strings, so that parsing    *)
(* (regular expressions, split, strip, capitalize) is computed character   *)
(* by character.  Emitted Rust text is a sequence of chunks whose          *)
(* concatenation is the text: the literal pieces of the templates are      *)
(* chunks of their own, interpolated values are spliced in character by    *)
(* character.  A raised ParsingError is the result Raise.                  *)
(***************************************************************************)
EXTENDS Integers, Sequences, FiniteSets, TLC

VARIABLES
    pc,            \* position of the run: argparse, main, the loops, the end
    debug,         \* args.debug
    out_kind,      \* what the output path is: "missing", "file" or "dir"
    dirs,          \* directories below the output path
    files,         \* files below the output path: path -> content
    raw,           \* main: raw_predicates
    lines,         \* Predicate.from_file: s.splitlines()
    line_no,       \* Predicate.from_file: position of the for loop
    predicates,    \* Predicate.from_file: predicates
    path_content,  \* main: path_content
    out_idx,       \* write_files / print_files: position of the for loop
    stdout,        \* what print_files printed
    fn,            \* the function under test (unit specifications)
    arg,           \* its argument
    ret            \* its result, or NotCalled

vars == <<pc, debug, out_kind, dirs, files, raw, lines, line_no, predicates,
          path_content, out_idx, stdout, fn, arg, ret>>

-----------------------------------------------------------------------------
(* Bounds of the explored inputs. *)

MaxIdentLen == 3

MaxParts == 3

MaxArgs == 2

MaxLines == 2

-----------------------------------------------------------------------------
(* Python str primitives. *)

LowerCase == <<"a", "b", "c", "d", "e", "f", "g", "h", "i", "j", "k", "l", "m", "n", "o", "p", "q", "r", "s", "t", "u", "v", "w", "x", "y", "z">>

UpperCase == <<"A", "B", "C", "D", "E", "F", "G", "H", "I", "J", "K", "L", "M", "N", "O", "P", "Q", "R", "S", "T", "U", "V", "W", "X", "Y", "Z">>

Digits == <<"0", "1", "2", "3", "4", "5", "6", "7", "8", "9">>

Range(s) == {s[i] : i \in DOMAIN s}

Letter == Range(LowerCase) \cup Range(UpperCase)

Whitespace == {" ", "\t", "\n", "\r", "\f"}

IndexIn(c, s) == CHOOSE i \in DOMAIN s : s[i] = c

ToUpper(c) == IF c \in Range(LowerCase) THEN UpperCase[IndexIn(c, LowerCase)] ELSE c

ToLower(c) == IF c \in Range(UpperCase) THEN LowerCase[IndexIn(c, UpperCase)] ELSE c

SeqsUpTo(S, n) == UNION {[1..k -> S] : k \in 0..n}

Drop(s, n) == SubSeq(s, n + 1, Len(s))

StartsWith(s, p) == Len(s) >= Len(p) /\ SubSeq(s, 1, Len(p)) = p

Contains(s, p) == \E i \in 0..(Len(s) - Len(p)) : SubSeq(s, i + 1, i + Len(p)) = p

RECURSIVE Split(_, _)
Split(s, c) ==
    IF c \notin Range(s) THEN <<s>>
    ELSE LET i == CHOOSE k \in DOMAIN s : s[k] = c /\ \A j \in 1..(k - 1) : s[j] # c
         IN  <<SubSeq(s, 1, i - 1)>> \o Split(Drop(s, i), c)

RECURSIVE Join(_, _)
Join(parts, sep) ==
    IF parts = <<>> THEN <<>>
    ELSE IF Len(parts) = 1 THEN parts[1]
    ELSE parts[1] \o sep \o Join(Tail(parts), sep)

RECURSIVE Concat(_)
Concat(parts) == IF parts = <<>> THEN <<>> ELSE parts[1] \o Concat(Tail(parts))

RECURSIVE LStrip(_)
LStrip(s) == IF s # <<>> /\ s[1] \in Whitespace THEN LStrip(Tail(s)) ELSE s

RECURSIVE RStrip(_)
RStrip(s) ==
    IF s # <<>> /\ s[Len(s)] \in Whitespace THEN RStrip(SubSeq(s, 1, Len(s) - 1)) ELSE s

Strip(s) == RStrip(LStrip(s))

Capitalize(w) ==
    [i \in DOMAIN w |-> IF i = 1 THEN ToUpper(w[i]) ELSE ToLower(w[i])]

DecimalStr(n) == IF n < 10 THEN <<Digits[n + 1]>> ELSE <<Digits[(n \div 10) + 1], Digits[(n % 10) + 1]>>

(* str.splitlines: a line ends at LF, CR or CR LF; the end of the text    *)
(* ends the last line only when that line is not empty.                    *)
RECURSIVE SplitLines(_)
SplitLines(s) ==
    IF s = <<>> THEN <<>>
    ELSE IF \A i \in DOMAIN s : s[i] \notin {"\n", "\r"} THEN <<s>>
    ELSE LET i == CHOOSE k \in DOMAIN s :
                      s[k] \in {"\n", "\r"} /\ \A j \in 1..(k - 1) : s[j] \notin {"\n", "\r"}
             n == IF s[i] = "\r" /\ i < Len(s) /\ s[i + 1] = "\n" THEN i + 1 ELSE i
         IN  <<SubSeq(s, 1, i - 1)>> \o SplitLines(Drop(s, n))

-----------------------------------------------------------------------------
(* Results of functions that may raise ParsingError. *)

Return(v) == [ok |-> TRUE, val |-> v]

Raise == [ok |-> FALSE]

TAB == <<"    ">>

(* Faulty variant: the text is capitalized as a whole, without the split. *)
upper_camel_noSplit(s) == Capitalize(s)

upper_camel(s) ==
    LET words == Split(s, "_")
    IN  Concat([i \in DOMAIN words |-> Capitalize(words[i])])

(* Faulty variant: every name of two or more characters is cut. *)
fix_as_bs_atLeastTwo(s) == IF Len(s) >= 2 THEN <<s[1]>> ELSE s

fix_as_bs(s) == IF Len(s) = 2 THEN <<s[1]>> ELSE s

(* Identifier.PATTERN, matched from the left: one letter, then as many     *)
(* letters, digits and underscores as there are.                           *)
(* The result is the length of the match, or -1 when the text does not     *)
(* start with a letter.                                                    *)
RECURSIVE IdentifierStar(_, _)
IdentifierStar(s, n) ==
    IF n < Len(s) /\ s[n + 1] \in Letter \cup Range(Digits) \cup {"_"}
    THEN IdentifierStar(s, n + 1)
    ELSE n

IdentifierMatch(s) ==
    IF s # <<>> /\ s[1] \in Letter THEN IdentifierStar(s, 1) ELSE -1

(* Faulty variant: re.match in place of re.fullmatch. *)
IdentifierFullMatch_asMatch(s) == IdentifierMatch(s) >= 1

IdentifierFullMatch(s) == IdentifierMatch(s) = Len(s)

Identifier_check(s) == IF ~IdentifierFullMatch(s) THEN Raise ELSE Return(s)

-----------------------------------------------------------------------------
(* The type registry. *)

(* Faulty variant: the conversion function is set from the wrong parameter. *)
ArgType_wrongField(flatzinc_type, rust_type, rust_import, rust_expr_fn) ==
    [flatzinc_type |-> flatzinc_type,
     rust_type     |-> rust_type,
     rust_import   |-> rust_import,
     rust_expr_fn  |-> rust_import,
     need_rc       |-> Contains(rust_type, <<"R", "c">>),
     is_array      |-> Contains(rust_type, <<"V", "e", "c">>)]

(* Faulty variant: the collection flag is read off the token. *)
ArgType_arrayFromToken(flatzinc_type, rust_type, rust_import, rust_expr_fn) ==
    [flatzinc_type |-> flatzinc_type,
     rust_type     |-> rust_type,
     rust_import   |-> rust_import,
     rust_expr_fn  |-> rust_expr_fn,
     need_rc       |-> Contains(rust_type, <<"R", "c">>),
     is_array      |-> Contains(flatzinc_type, <<"i", "n", "t">>)]

ArgType(flatzinc_type, rust_type, rust_import, rust_expr_fn) ==
    [flatzinc_type |-> flatzinc_type,
     rust_type     |-> rust_type,
     rust_import   |-> rust_import,
     rust_expr_fn  |-> rust_expr_fn,
     need_rc       |-> Contains(rust_type, <<"R", "c">>),
     is_array      |-> Contains(rust_type, <<"V", "e", "c">>)]

ARG_TYPE_FACTORY ==
    << ArgType(<<"i", "n", "t">>,
               <<"I", "n", "t">>,
               <<"u", "s", "e", " ", "c", "r", "a", "t", "e", ":", ":", "f", "z", "n", ":", ":", "t", "y", "p", "e", "s", ":", ":", "I", "n", "t", ";", "\n">>,
               <<"i", "n", "t", "_", "f", "r", "o", "m", "_", "e", "x", "p", "r">>),
       ArgType(<<"v", "a", "r", " ", "i", "n", "t">>,
               <<"R", "c", "<", "V", "a", "r", "I", "n", "t", ">">>,
               <<"u", "s", "e", " ", "c", "r", "a", "t", "e", ":", ":", "f", "z", "n", ":", ":", "v", "a", "r", ":", ":", "V", "a", "r", "I", "n", "t", ";", "\n">>,
               <<"v", "a", "r", "_", "i", "n", "t", "_", "f", "r", "o", "m", "_", "e", "x", "p", "r">>),
       ArgType(<<"a", "r", "r", "a", "y", " ", "[", "i", "n", "t", "]", " ", "o", "f", " ", "i", "n", "t">>,
               <<"V", "e", "c", "<", "I", "n", "t", ">">>,
               <<"u", "s", "e", " ", "c", "r", "a", "t", "e", ":", ":", "f", "z", "n", ":", ":", "t", "y", "p", "e", "s", ":", ":", "I", "n", "t", ";", "\n">>,
               <<"v", "e", "c", "_", "i", "n", "t", "_", "f", "r", "o", "m", "_", "e", "x", "p", "r">>),
       ArgType(<<"a", "r", "r", "a", "y", " ", "[", "i", "n", "t", "]", " ", "o", "f", " ", "v", "a", "r", " ", "i", "n", "t">>,
               <<"V", "e", "c", "<", "R", "c", "<", "V", "a", "r", "I", "n", "t", ">", ">">>,
               <<"u", "s", "e", " ", "c", "r", "a", "t", "e", ":", ":", "f", "z", "n", ":", ":", "v", "a", "r", ":", ":", "V", "a", "r", "I", "n", "t", ";", "\n">>,
               <<"v", "e", "c", "_", "v", "a", "r", "_", "i", "n", "t", "_", "f", "r", "o", "m", "_", "e", "x", "p", "r">>),
       ArgType(<<"b", "o", "o", "l">>,
               <<"b", "o", "o", "l">>,
               <<>>,
               <<"b", "o", "o", "l", "_", "f", "r", "o", "m", "_", "e", "x", "p", "r">>),
       ArgType(<<"v", "a", "r", " ", "b", "o", "o", "l">>,
               <<"R", "c", "<", "V", "a", "r", "B", "o", "o", "l", ">">>,
               <<"u", "s", "e", " ", "c", "r", "a", "t", "e", ":", ":", "f", "z", "n", ":", ":", "v", "a", "r", ":", ":", "V", "a", "r", "B", "o", "o", "l", ";", "\n">>,
               <<"v", "a", "r", "_", "b", "o", "o", "l", "_", "f", "r", "o", "m", "_", "e", "x", "p", "r">>),
       ArgType(<<"a", "r", "r", "a", "y", " ", "[", "i", "n", "t", "]", " ", "o", "f", " ", "b", "o", "o", "l">>,
               <<"V", "e", "c", "<", "b", "o", "o", "l", ">">>,
               <<>>,
               <<"v", "e", "c", "_", "b", "o", "o", "l", "_", "f", "r", "o", "m", "_", "e", "x", "p", "r">>),
       ArgType(<<"a", "r", "r", "a", "y", " ", "[", "i", "n", "t", "]", " ", "o", "f", " ", "v", "a", "r", " ", "b", "o", "o", "l">>,
               <<"V", "e", "c", "<", "R", "c", "<", "V", "a", "r", "B", "o", "o", "l", ">", ">">>,
               <<"u", "s", "e", " ", "c", "r", "a", "t", "e", ":", ":", "f", "z", "n", ":", ":", "v", "a", "r", ":", ":", "V", "a", "r", "B", "o", "o", "l", ";", "\n">>,
               <<"v", "e", "c", "_", "v", "a", "r", "_", "b", "o", "o", "l", "_", "f", "r", "o", "m", "_", "e", "x", "p", "r">>) >>

(* Faulty variant: the token is compared after trimming and folding its case. *)
ArgType_from_str_lenient(self, s) ==
    IF [i \in DOMAIN Strip(s) |-> ToLower(Strip(s)[i])] = self.flatzinc_type
    THEN Return(self) ELSE Raise

ArgType_from_str(self, s) == IF s = self.flatzinc_type THEN Return(self) ELSE Raise

(* ArgTypeFactory.from_str: the first entry that does not raise. *)
RECURSIVE FactoryLoop(_, _)
FactoryLoop(arg_types, s) ==
    IF arg_types = <<>> THEN Raise
    ELSE LET r == ArgType_from_str(Head(arg_types), s)
         IN  IF r.ok THEN r ELSE FactoryLoop(Tail(arg_types), s)

ArgTypeFactory_from_str(s) == FactoryLoop(ARG_TYPE_FACTORY, s)

-----------------------------------------------------------------------------
(* Arg. *)

Arg(type_, identifier) == [type |-> type_, identifier |-> fix_as_bs(identifier)]

(* Faulty variant: the two parts are not trimmed. *)
Arg_from_str_untrimmed(s) ==
    LET parts == Split(s, ":")
    IN  IF Len(parts) # 2 THEN Raise
        ELSE LET arg_type   == ArgTypeFactory_from_str(parts[1])
                 identifier == Identifier_check(parts[2])
             IN  IF ~arg_type.ok THEN Raise
                 ELSE IF ~identifier.ok THEN Raise
                 ELSE Return(Arg(arg_type.val, identifier.val))

Arg_from_str(s) ==
    LET parts == Split(s, ":")
    IN  IF Len(parts) # 2 THEN Raise
        ELSE LET raw_arg_type   == Strip(parts[1])
                 raw_identifier == Strip(parts[2])
                 arg_type       == ArgTypeFactory_from_str(raw_arg_type)
                 identifier     == Identifier_check(raw_identifier)
             IN  IF ~arg_type.ok THEN Raise
                 ELSE IF ~identifier.ok THEN Raise
                 ELSE Return(Arg(arg_type.val, identifier.val))

(* Faulty variant: the colon between the type and the name is left out. *)
Arg_str_noColon(self) == self.type.flatzinc_type \o <<" ">> \o self.identifier

Arg_str(self) == self.type.flatzinc_type \o <<":", " ">> \o self.identifier


-----------------------------------------------------------------------------
(* Predicate: parsing. *)

(* Predicate.PATTERN against the whole text: the literal prefix, a first   *)
(* group that runs up to the first opening parenthesis, a second group     *)
(* from there to the closing parenthesis that ends the text.  The dot of   *)
(* the second group matches anything but a line feed.                      *)
Predicate_PATTERN_fullmatch(s) ==
    LET prefix == <<"p", "r", "e", "d", "i", "c", "a", "t", "e", " ">>
        rest   == Drop(s, Len(prefix))
    IN  IF ~StartsWith(s, prefix) THEN Raise
        ELSE IF "(" \notin Range(rest) THEN Raise
        ELSE LET p == CHOOSE k \in DOMAIN rest :
                          rest[k] = "(" /\ \A j \in 1..(k - 1) : rest[j] # "("
                 n == Len(rest)
             IN  IF p >= 2 /\ n >= p + 2 /\ rest[n] = ")"
                    /\ "\n" \notin Range(SubSeq(rest, p + 1, n - 1))
                 THEN Return([identifier |-> SubSeq(rest, 1, p - 1),
                              raw_args   |-> SubSeq(rest, p + 1, n - 1)])
                 ELSE Raise

(* Faulty variant: the name is stored without Identifier.check. *)
Predicate_unchecked(identifer, args) ==
    Return([identifier |-> identifer,
            rust_name  |-> upper_camel(identifer),
            args       |-> args])

Predicate(identifer, args) ==
    LET identifier == Identifier_check(identifer)
    IN  IF ~identifier.ok THEN Raise
        ELSE Return([identifier |-> identifier.val,
                     rust_name  |-> upper_camel(identifer),
                     args       |-> args])

(* Faulty variant: a pair of parentheses with nothing between them is     *)
(* taken as an empty list of Args.                                         *)
Predicate_from_str_emptyArgs(s) ==
    LET m == Predicate_PATTERN_fullmatch(s)
        n == Len(s)
    IN  IF ~m.ok
        THEN IF StartsWith(s, <<"p", "r", "e", "d", "i", "c", "a", "t", "e", " ">>) /\ n >= 13 /\ SubSeq(s, n - 1, n) = <<"(", ")">>
             THEN Predicate(SubSeq(s, 11, n - 2), <<>>)
             ELSE Raise
        ELSE LET raw_args == Split(m.val.raw_args, ",")
                 args     == [i \in DOMAIN raw_args |-> Arg_from_str(raw_args[i])]
             IN  IF \E i \in DOMAIN args : ~args[i].ok THEN Raise
                 ELSE Predicate(m.val.identifier, [i \in DOMAIN args |-> args[i].val])

Predicate_from_str(s) ==
    LET m == Predicate_PATTERN_fullmatch(s)
    IN  IF ~m.ok THEN Raise
        ELSE LET raw_args == Split(m.val.raw_args, ",")
                 args     == [i \in DOMAIN raw_args |-> Arg_from_str(raw_args[i])]
             IN  IF \E i \in DOMAIN args : ~args[i].ok THEN Raise
                 ELSE Predicate(m.val.identifier, [i \in DOMAIN args |-> args[i].val])

Predicate_str(self) ==
    <<"p", "r", "e", "d", "i", "c", "a", "t", "e", " ">> \o self.identifier \o <<"(">>
        \o Join([i \in DOMAIN self.args |-> Arg_str(self.args[i])], <<",", " ">>) \o <<")">>

-----------------------------------------------------------------------------
(* Emitted text: a sequence of chunks.  A chunk is a piece of text without *)
(* a line feed, or the line feed itself, so that the lines of a text are   *)
(* its chunks split at the line feeds.                                     *)

NL == <<"\n">>

TAB2 == TAB \o TAB

TAB3 == TAB \o TAB \o TAB

(* The printable ASCII characters in code order, from the space, 32, to    *)
(* the tilde, 126.  The grave accent, 96, is written by its name.          *)
Ascii ==
    <<" ", "!", "\"", "#", "$", "%", "&", "'", "(", ")", "*", "+", ",", "-", ".", "/", "0", "1", "2", "3", "4", "5", "6", "7", "8", "9", ":", ";", "<", "=", ">", "?", "@", "A", "B", "C", "D", "E", "F", "G", "H", "I", "J", "K", "L", "M", "N", "O", "P", "Q", "R", "S", "T", "U", "V", "W", "X", "Y", "Z", "[", "\\", "]", "^", "_">>
    \o <<"grave">> \o <<"a", "b", "c", "d", "e", "f", "g", "h", "i", "j", "k", "l", "m", "n", "o", "p", "q", "r", "s", "t", "u", "v", "w", "x", "y", "z", "{", "|", "}", "~">>

Ord(c) == IF c = "\t" THEN 9 ELSE IF c = "\n" THEN 10 ELSE 31 + IndexIn(c, Ascii)

(* The order of str: by the first character that differs, a prefix first. *)
StrLess(a, b) ==
    \E k \in 1..(Len(b)) :
        /\ \A j \in 1..(k - 1) : j <= Len(a) /\ a[j] = b[j]
        /\ Len(a) < k \/ (Len(a) >= k /\ Ord(a[k]) < Ord(b[k]))

RECURSIVE sorted(_)
sorted(S) ==
    IF S = {} THEN <<>>
    ELSE LET m == CHOOSE x \in S : \A y \in S \ {x} : StrLess(x, y)
         IN  <<m>> \o sorted(S \ {m})

Arg_rust_attr(self) == self.identifier \o <<": ">> \o self.type.rust_type

Arg_rust_getter(self) ==
    TAB \o <<"pub fn ">> \o self.identifier \o <<"(&self) -> &">>
        \o self.type.rust_type \o <<" {">> \o NL
    \o TAB2 \o <<"&self.">> \o self.identifier \o NL
    \o TAB \o <<"}">> \o NL

DERIVE == <<"#[derive(Clone, Debug)]">> \o NL

(* Faulty variant: one import per Arg, repeated descriptors included. *)
rust_imports_perArg(self) ==
    <<"u", "s", "e", " ", "s", "t", "d", ":", ":", "r", "c", ":", ":", "R", "c", ";">> \o NL
    \o NL
    \o <<"u", "s", "e", " ", "f", "l", "a", "t", "z", "i", "n", "c", ":", ":", "C", "o", "n", "s", "t", "r", "a", "i", "n", "t", "I", "t", "e", "m", ";">> \o NL
    \o NL
    \o Concat([i \in DOMAIN self.args |->
                  <<"u", "s", "e", " ", "c", "r", "a", "t", "e", ":", ":", "f", "z", "n", ":", ":", "p", "a", "r", "s", "e", "r", ":", ":">> \o self.args[i].type.rust_expr_fn \o <<";">> \o NL])
    \o <<"u", "s", "e", " ", "c", "r", "a", "t", "e", ":", ":", "f", "z", "n", ":", ":", "c", "o", "n", "s", "t", "r", "a", "i", "n", "t", ":", ":", "C", "o", "n", "s", "t", "r", "a", "i", "n", "t", ";">> \o NL
    \o <<"u", "s", "e", " ", "c", "r", "a", "t", "e", ":", ":", "f", "z", "n", ":", ":", "m", "o", "d", "e", "l", ":", ":", "M", "o", "d", "e", "l", ";">> \o NL
    \o <<"u", "s", "e", " ", "c", "r", "a", "t", "e", ":", ":", "f", "z", "n", ":", ":", "F", "z", "n", ";">> \o NL
    \o Concat([i \in DOMAIN self.args |-> self.args[i].type.rust_import])

(* Faulty variant: the imports come in the order of the Args, each once. *)
rust_imports_argOrder(self) ==
    LET first(i, f(_)) == \A j \in 1..(i - 1) : f(self.args[j]) # f(self.args[i])
        fn_of(a)       == a.type.rust_expr_fn
        import_of(a)   == a.type.rust_import
    IN  <<"u", "s", "e", " ", "s", "t", "d", ":", ":", "r", "c", ":", ":", "R", "c", ";">> \o NL
        \o NL
        \o <<"u", "s", "e", " ", "f", "l", "a", "t", "z", "i", "n", "c", ":", ":", "C", "o", "n", "s", "t", "r", "a", "i", "n", "t", "I", "t", "e", "m", ";">> \o NL
        \o NL
        \o Concat([i \in DOMAIN self.args |->
                      IF first(i, fn_of)
                      THEN <<"u", "s", "e", " ", "c", "r", "a", "t", "e", ":", ":", "f", "z", "n", ":", ":", "p", "a", "r", "s", "e", "r", ":", ":">> \o fn_of(self.args[i]) \o <<";">> \o NL
                      ELSE <<>>])
        \o <<"u", "s", "e", " ", "c", "r", "a", "t", "e", ":", ":", "f", "z", "n", ":", ":", "c", "o", "n", "s", "t", "r", "a", "i", "n", "t", ":", ":", "C", "o", "n", "s", "t", "r", "a", "i", "n", "t", ";">> \o NL
        \o <<"u", "s", "e", " ", "c", "r", "a", "t", "e", ":", ":", "f", "z", "n", ":", ":", "m", "o", "d", "e", "l", ":", ":", "M", "o", "d", "e", "l", ";">> \o NL
        \o <<"u", "s", "e", " ", "c", "r", "a", "t", "e", ":", ":", "f", "z", "n", ":", ":", "F", "z", "n", ";">> \o NL
        \o Concat([i \in DOMAIN self.args |->
                      IF first(i, import_of) THEN import_of(self.args[i]) ELSE <<>>])

rust_imports(self) ==
    LET from_expr_fns == {self.args[i].type.rust_expr_fn : i \in DOMAIN self.args}
        fns           == sorted(from_expr_fns)
        type_imports  == {self.args[i].type.rust_import : i \in DOMAIN self.args}
    IN  <<"u", "s", "e", " ", "s", "t", "d", ":", ":", "r", "c", ":", ":", "R", "c", ";">> \o NL
        \o NL
        \o <<"u", "s", "e", " ", "f", "l", "a", "t", "z", "i", "n", "c", ":", ":", "C", "o", "n", "s", "t", "r", "a", "i", "n", "t", "I", "t", "e", "m", ";">> \o NL
        \o NL
        \o Concat([i \in DOMAIN fns |->
                      <<"u", "s", "e", " ", "c", "r", "a", "t", "e", ":", ":", "f", "z", "n", ":", ":", "p", "a", "r", "s", "e", "r", ":", ":">> \o fns[i] \o <<";">> \o NL])
        \o <<"u", "s", "e", " ", "c", "r", "a", "t", "e", ":", ":", "f", "z", "n", ":", ":", "c", "o", "n", "s", "t", "r", "a", "i", "n", "t", ":", ":", "C", "o", "n", "s", "t", "r", "a", "i", "n", "t", ";">> \o NL
        \o <<"u", "s", "e", " ", "c", "r", "a", "t", "e", ":", ":", "f", "z", "n", ":", ":", "m", "o", "d", "e", "l", ":", ":", "M", "o", "d", "e", "l", ";">> \o NL
        \o <<"u", "s", "e", " ", "c", "r", "a", "t", "e", ":", ":", "f", "z", "n", ":", ":", "F", "z", "n", ";">> \o NL
        \o Concat(sorted(type_imports))

rust_struct(self) ==
    <<"pub struct ">> \o self.rust_name \o <<" {">> \o NL
    \o Concat([i \in DOMAIN self.args |->
                  TAB \o Arg_rust_attr(self.args[i]) \o <<",">> \o NL])
    \o <<"}">> \o NL

(* Faulty variant: the field initialiser lists the names backwards. *)
rust_new_reversed(self) ==
    TAB \o <<"pub fn new(">>
    \o Join([i \in DOMAIN self.args |-> Arg_rust_attr(self.args[i])], <<", ">>)
    \o <<") -> Self {">> \o NL
    \o TAB2 \o <<"Self { ">>
    \o Join([i \in DOMAIN self.args |-> self.args[Len(self.args) + 1 - i].identifier], <<", ">>)
    \o <<" }">> \o NL
    \o TAB \o <<"}">> \o NL

rust_new(self) ==
    TAB \o <<"pub fn new(">>
    \o Join([i \in DOMAIN self.args |-> Arg_rust_attr(self.args[i])], <<", ">>)
    \o <<") -> Self {">> \o NL
    \o TAB2 \o <<"Self { ">>
    \o Join([i \in DOMAIN self.args |-> self.args[i].identifier], <<", ">>)
    \o <<" }">> \o NL
    \o TAB \o <<"}">> \o NL

rust_getters(self) ==
    Join([i \in DOMAIN self.args |-> Arg_rust_getter(self.args[i])], NL)

(* Faulty variant: the expressions are numbered from one. *)
rust_try_from_item_conversions_fromOne(self) ==
    Concat([i \in DOMAIN self.args |->
               TAB2 \o <<"let ">> \o self.args[i].identifier \o <<" = ">>
               \o self.args[i].type.rust_expr_fn \o <<"(&item.exprs[">>
               \o DecimalStr(i) \o <<"], model)?;">> \o NL])

(* The loop of rust_try_from_item, lines 239 and 240. *)
rust_try_from_item_conversions(self) ==
    Concat([i \in DOMAIN self.args |->
               TAB2 \o <<"let ">> \o self.args[i].identifier \o <<" = ">>
               \o self.args[i].type.rust_expr_fn \o <<"(&item.exprs[">>
               \o DecimalStr(i - 1) \o <<"], model)?;">> \o NL])

rust_try_from_item(self) ==
    TAB \o <<"pub fn try_from_item(item: ConstraintItem, model: &Model) -> anyhow::Result<Self> {">> \o NL
    \o TAB2 \o <<"anyhow::ensure!(">> \o NL
    \o TAB3 \o <<"item.id.as_str() == Self::NAME,">> \o NL
    \o TAB3 \o <<"\"'{}' expected but received '{}'\",">> \o NL
    \o TAB3 \o <<"Self::NAME,">> \o NL
    \o TAB3 \o <<"item.id,">> \o NL
    \o TAB2 \o <<");">> \o NL
    \o TAB2 \o <<"anyhow::ensure!(">> \o NL
    \o TAB3 \o <<"item.exprs.len() == Self::NB_ARGS,">> \o NL
    \o TAB3 \o <<"\"{} args expected but received {}\",">> \o NL
    \o TAB3 \o <<"Self::NB_ARGS,">> \o NL
    \o TAB3 \o <<"item.exprs.len(),">> \o NL
    \o TAB2 \o <<");">> \o NL
    \o rust_try_from_item_conversions(self)
    \o TAB2 \o <<"Ok(Self::new(">>
    \o Join([i \in DOMAIN self.args |-> self.args[i].identifier], <<", ">>)
    \o <<"))">> \o NL
    \o TAB \o <<"}">> \o NL

(* The characters of an emitted text between the chunk open and the first  *)
(* chunk close after it.                                                   *)
EmittedBetween(text, open, close) ==
    LET i == CHOOSE k \in DOMAIN text : text[k] = open
        j == CHOOSE k \in (i + 1)..Len(text) :
                 text[k] = close /\ \A m \in (i + 1)..(k - 1) : text[m] # close
    IN  SubSeq(text, i + 1, j - 1)

RECURSIVE DecimalValue(_)
DecimalValue(ds) ==
    IF ds = <<>> THEN 0
    ELSE 10 * DecimalValue(SubSeq(ds, 1, Len(ds) - 1)) + (IndexIn(ds[Len(ds)], Digits) - 1)

(* The lines of an emitted text without their indentation. *)
CodeLines(text) ==
    LET ls == Split(text, "\n")
    IN  [i \in DOMAIN ls |-> SelectSeq(ls[i], LAMBDA c : c # TAB[1])]

(* The value bound to a name: the last binding of the name. *)
Lookup(env, name) ==
    LET ks == {k \in DOMAIN env : env[k][1] = name}
    IN  env[CHOOSE k \in ks : \A j \in ks : j <= k][2]

(* What the emitted factory does on an item, statement by statement.  An   *)
(* item is its identifier and the number of its expressions.  ensure!      *)
(* returns an error when its condition is false; a let statement calls the *)
(* conversion function on the expression of the given index and binds the  *)
(* result; the last statement builds the value from the bound names.       *)
RECURSIVE try_from_item_exec(_, _, _, _, _)
try_from_item_exec(ls, self, item, env, calls) ==
    IF ls = <<>> THEN [ok |-> FALSE, error |-> "no value", calls |-> calls]
    ELSE IF Head(ls) = <<"item.id.as_str() == Self::NAME,">> /\ item.id # self.identifier
         THEN [ok |-> FALSE, error |-> "identifier", calls |-> calls]
    ELSE IF Head(ls) = <<"item.exprs.len() == Self::NB_ARGS,">> /\ item.exprs # Len(self.args)
         THEN [ok |-> FALSE, error |-> "count", calls |-> calls]
    ELSE IF Head(ls) # <<>> /\ Head(Head(ls)) = "let "
         THEN LET name  == EmittedBetween(Head(ls), "let ", " = ")
                  conv  == EmittedBetween(Head(ls), " = ", "(&item.exprs[")
                  index == DecimalValue(EmittedBetween(Head(ls), "(&item.exprs[", "], model)?;"))
                  value == [fn |-> conv, expr |-> index]
              IN  try_from_item_exec(Tail(ls), self, item,
                                     Append(env, <<name, value>>), Append(calls, value))
    ELSE IF Head(ls) # <<>> /\ Head(Head(ls)) = "Ok(Self::new("
         THEN LET names == Split(EmittedBetween(Head(ls), "Ok(Self::new(", "))"), ", ")
              IN  [ok |-> TRUE, val |-> [i \in DOMAIN names |-> Lookup(env, names[i])],
                   calls |-> calls]
    ELSE try_from_item_exec(Tail(ls), self, item, env, calls)

try_from_item_run(self, item) ==
    try_from_item_exec(CodeLines(rust_try_from_item(self)), self, item, <<>>, <<>>)

(* Faulty variant: NAME is given the generated type name. *)
rust_impl_consts_rustName(self) ==
    TAB \o <<"pub const NAME: &str = \"">> \o self.rust_name \o <<"\";">> \o NL
    \o TAB \o <<"pub const NB_ARGS: usize = ">> \o DecimalStr(Len(self.args)) \o <<";">> \o NL

rust_impl_consts(self) ==
    TAB \o <<"pub const NAME: &str = \"">> \o self.identifier \o <<"\";">> \o NL
    \o TAB \o <<"pub const NB_ARGS: usize = ">> \o DecimalStr(Len(self.args)) \o <<";">> \o NL

rust_impl(self) ==
    <<"impl ">> \o self.rust_name \o <<" {">> \o NL
    \o rust_impl_consts(self)
    \o NL
    \o rust_new(self)
    \o NL
    \o rust_getters(self)
    \o NL
    \o rust_try_from_item(self)
    \o <<"}">> \o NL

(* The format string of the serializer, between its quotes, and the        *)
(* values that follow it, as written on lines 261 to 264.  A chunk is a    *)
(* placeholder, an escape or one literal character.                        *)
fzn_format(self) ==
    <<"{}", "(">> \o Join([i \in DOMAIN self.args |-> <<"{:?}">>], <<",", " ">>)
    \o <<")", ";", "\\n">>

fzn_values(self) ==
    <<"Self::NAME">>
    \o [i \in DOMAIN self.args |-> <<"self.">> \o self.args[i].identifier \o <<".fzn()">>]

rust_impl_flatzinc(self) ==
    <<"impl Fzn for ">> \o self.rust_name \o <<" {">> \o NL
    \o TAB \o <<"fn fzn(&self) -> String {">> \o NL
    \o TAB2 \o <<"format!(">>
    \o <<"\"">> \o fzn_format(self)
    \o <<"\"">> \o <<", ">> \o <<"Self::NAME">> \o <<", ">>
    \o Join(Tail(fzn_values(self)), <<", ">>)
    \o <<")">> \o NL
    \o TAB \o <<"}">> \o NL
    \o <<"}">> \o NL

(* What the emitted serializer renders.  format! writes the literal       *)
(* characters of its format string and fills each placeholder with the     *)
(* next value: the empty placeholder with the text of the value, the       *)
(* debug placeholder with the text between double quotes, its quotes,      *)
(* backslashes and line feeds escaped.                                     *)
rust_Display(v) == v

rust_Debug(v) ==
    <<"\"">>
    \o Concat([i \in DOMAIN v |->
                  IF v[i] = "\"" THEN <<"\\", "\"">>
                  ELSE IF v[i] = "\\" THEN <<"\\", "\\">>
                  ELSE IF v[i] = "\n" THEN <<"\\", "n">>
                  ELSE <<v[i]>>])
    \o <<"\"">>

RECURSIVE format_render(_, _)
format_render(fmt, values) ==
    IF fmt = <<>> THEN <<>>
    ELSE IF Head(fmt) = "{}"
         THEN rust_Display(Head(values)) \o format_render(Tail(fmt), Tail(values))
    ELSE IF Head(fmt) = "{:?}"
         THEN rust_Debug(Head(values)) \o format_render(Tail(fmt), Tail(values))
    ELSE IF Head(fmt) = "\\n"
         THEN <<"\n">> \o format_render(Tail(fmt), values)
    ELSE <<Head(fmt)>> \o format_render(Tail(fmt), values)

(* The serializer of a value whose i-th field serializes to fields[i]:     *)
(* Self::NAME is the identifier, line 247.                                 *)
fzn_render(self, fields) == format_render(fzn_format(self), <<self.identifier>> \o fields)

rust_try_from_constraint(self) ==
    <<"impl TryFrom<Constraint> for ">> \o self.rust_name \o <<" {">> \o NL
    \o TAB \o <<"type Error = anyhow::Error;">> \o NL
    \o NL
    \o TAB \o <<"fn try_from(value: Constraint) -> Result<Self, Self::Error> {">> \o NL
    \o TAB2 \o <<"match value {">> \o NL
    \o TAB3 \o <<"Constraint::">> \o self.rust_name \o <<"(c) => Ok(c),">> \o NL
    \o TAB3 \o <<"_ => anyhow::bail!(\"unable to downcast to {}\", Self::NAME),">> \o NL
    \o TAB2 \o <<"}">> \o NL
    \o TAB \o <<"}">> \o NL
    \o <<"}">> \o NL

(* Faulty variant: the value is wrapped in a variant of the DSL name. *)
rust_from_for_constraint_dslName(self) ==
    <<"impl From<">> \o self.rust_name \o <<"> for Constraint {">> \o NL
    \o TAB \o <<"fn from(value: ">> \o self.rust_name \o <<") -> Self {">> \o NL
    \o TAB2 \o <<"Self::">> \o self.identifier \o <<"(value)">> \o NL
    \o TAB \o <<"}">> \o NL
    \o <<"}">> \o NL

rust_from_for_constraint(self) ==
    <<"impl From<">> \o self.rust_name \o <<"> for Constraint {">> \o NL
    \o TAB \o <<"fn from(value: ">> \o self.rust_name \o <<") -> Self {">> \o NL
    \o TAB2 \o <<"Self::">> \o self.rust_name \o <<"(value)">> \o NL
    \o TAB \o <<"}">> \o NL
    \o <<"}">> \o NL

(* What the emitted conversions do.  A value of the tagged union is the    *)
(* name of its variant and what the variant carries.  The widening builds  *)
(* the variant written after Self; the narrowing matches the variant       *)
(* written in its first arm and fails on the catch-all arm.                *)
from_for_constraint_run(self, value) ==
    [variant |-> EmittedBetween(rust_from_for_constraint(self), "Self::", "(value)"),
     carries |-> value]

try_from_constraint_run(self, value) ==
    IF value.variant = EmittedBetween(rust_try_from_constraint(self),
                                      "Constraint::", "(c) => Ok(c),")
    THEN Return(value.carries)
    ELSE Raise

Predicate_rust_file(self) ==
    rust_imports(self)
    \o NL
    \o DERIVE
    \o rust_struct(self)
    \o NL
    \o rust_impl(self)
    \o NL
    \o rust_impl_flatzinc(self)
    \o NL
    \o rust_try_from_constraint(self)
    \o NL
    \o rust_from_for_constraint(self)

-----------------------------------------------------------------------------
(* The aggregate units. *)

(* Faulty variant: the names are sorted and a repeated name is kept once. *)
rust_mods_sortedOnce(preds) ==
    LET ids == sorted({preds[i].identifier : i \in DOMAIN preds})
    IN  Concat([i \in DOMAIN ids |-> <<"mod ">> \o ids[i] \o <<";">> \o NL])

rust_mods(preds) ==
    Concat([i \in DOMAIN preds |-> <<"mod ">> \o preds[i].identifier \o <<";">> \o NL])

rust_uses(preds) ==
    Concat([i \in DOMAIN preds |->
               <<"pub use ">> \o preds[i].identifier \o <<"::">>
               \o preds[i].rust_name \o <<";">> \o NL])

BuiltinsMod_rust_file(preds) == rust_mods(preds) \o NL \o rust_uses(preds)

ConstraintMod_FILE ==
    <<"pub mod builtins;">> \o NL
    \o <<"mod constraint;">> \o NL
    \o NL
    \o <<"pub use constraint::Constraint;">> \o NL

Constraint_rust_imports == <<"use crate::fzn::constraint::builtins::*;">> \o NL

(* Faulty variant: a variant is named by the DSL name of the predicate. *)
rust_enum_dslName(preds) ==
    <<"pub enum Constraint {">> \o NL
    \o Concat([i \in DOMAIN preds |->
                  TAB \o preds[i].identifier \o <<"(">> \o preds[i].rust_name \o <<"),">> \o NL])
    \o <<"}">> \o NL

rust_enum(preds) ==
    <<"pub enum Constraint {">> \o NL
    \o Concat([i \in DOMAIN preds |->
                  TAB \o preds[i].rust_name \o <<"(">> \o preds[i].rust_name \o <<"),">> \o NL])
    \o <<"}">> \o NL

Constraint_rust_file(preds) ==
    Constraint_rust_imports \o NL \o DERIVE \o rust_enum(preds)

-----------------------------------------------------------------------------
(* Predicate.from_file, one line of the loop at a time.  The loop state is *)
(* the lines, the position and the predicates collected so far.            *)

(* Faulty variant: a line is skipped when it holds the sign anywhere. *)
from_file_skips_anywhere(line) == "%" \in Range(line)

from_file_skips(line) == StartsWith(line, <<"%">>)

(* Faulty variant: a line that does not parse is skipped. *)
from_file_step_skipInvalid(preds, line) ==
    IF from_file_skips(line) THEN Return(preds)
    ELSE LET predicate == Predicate_from_str(line)
         IN  IF ~predicate.ok THEN Return(preds)
             ELSE Return(Append(preds, predicate.val))

(* Faulty variant: an empty line is skipped like a comment. *)
from_file_step_skipBlank(preds, line) ==
    IF from_file_skips(line) \/ line = <<>> THEN Return(preds)
    ELSE LET predicate == Predicate_from_str(line)
         IN  IF ~predicate.ok THEN Raise
             ELSE Return(Append(preds, predicate.val))

from_file_step(preds, line) ==
    IF from_file_skips(line) THEN Return(preds)
    ELSE LET predicate == Predicate_from_str(line)
         IN  IF ~predicate.ok THEN Raise
             ELSE Return(Append(preds, predicate.val))

(* The loop of Predicate.from_file, from the collected predicates and the  *)
(* lines that remain.                                                      *)
RECURSIVE from_file_loop(_, _)
from_file_loop(preds, ls) ==
    IF ls = <<>> THEN Return(preds)
    ELSE LET r == from_file_step(preds, Head(ls))
         IN  IF ~r.ok THEN Raise ELSE from_file_loop(r.val, Tail(ls))

Predicate_from_file(s) == from_file_loop(<<>>, SplitLines(s))

-----------------------------------------------------------------------------
(* The driver.  A path is the sequence of its components. *)

OutputArg == <<"o", "u", "t">>

Path(s) == <<s>>

Div(path, name) == Append(path, name)

NoFiles == [p \in {} |-> <<>>]

(* What the output path may be when the run starts. *)
InitialTrees ==
    { [kind |-> "missing", dirs |-> {}, files |-> NoFiles],
      [kind |-> "file",    dirs |-> {}, files |-> NoFiles],
      [kind |-> "dir",     dirs |-> {}, files |-> NoFiles],
      [kind |-> "dir",     dirs |-> {},
       files |-> [p \in {Div(Path(OutputArg), <<"o", "l", "d", ".", "r", "s">>)} |-> <<"old">>]],
      [kind |-> "dir",     dirs |-> {Div(Path(OutputArg), <<"b", "u", "i", "l", "t", "i", "n", "s">>)},
       files |-> NoFiles] }

(* Faulty variant: a directory is accepted whatever it holds. *)
output_dir_anyDir(kind, ds, fs) ==
    IF kind = "missing" THEN Raise
    ELSE IF kind # "dir" THEN Raise
    ELSE Return(Path(OutputArg))

(* output_dir: the argparse type of the output argument. *)
output_dir(kind, ds, fs) ==
    IF kind = "missing" THEN Raise
    ELSE IF kind # "dir" THEN Raise
    ELSE IF ds # {} \/ DOMAIN fs # {} THEN Raise
    ELSE Return(Path(OutputArg))

constraint_dir == Path(OutputArg)

builtins_dir == Div(constraint_dir, <<"b", "u", "i", "l", "t", "i", "n", "s">>)

(* Faulty variant: the static wiring unit is left out. *)
main_path_content_noWiring(preds) ==
    << <<Div(builtins_dir, <<"m", "o", "d", ".", "r", "s">>), BuiltinsMod_rust_file(preds)>>,
       <<Div(constraint_dir, <<"c", "o", "n", "s", "t", "r", "a", "i", "n", "t", ".", "r", "s">>), Constraint_rust_file(preds)>> >>
    \o [i \in DOMAIN preds |->
           <<Div(builtins_dir, preds[i].identifier \o <<".", "r", "s">>),
             Predicate_rust_file(preds[i])>>]

(* main, lines 397 to 406: the three aggregate units, then one unit per    *)
(* predicate.                                                              *)
main_path_content(preds) ==
    << <<Div(builtins_dir, <<"m", "o", "d", ".", "r", "s">>), BuiltinsMod_rust_file(preds)>>,
       <<Div(constraint_dir, <<"c", "o", "n", "s", "t", "r", "a", "i", "n", "t", ".", "r", "s">>), Constraint_rust_file(preds)>>,
       <<Div(constraint_dir, <<"m", "o", "d", ".", "r", "s">>), ConstraintMod_FILE>> >>
    \o [i \in DOMAIN preds |->
           <<Div(builtins_dir, preds[i].identifier \o <<".", "r", "s">>),
             Predicate_rust_file(preds[i])>>]

(* Faulty variant: the directory is created in debug mode too. *)
main_mkdir_always(dbg, ds) == ds \cup {builtins_dir}

main_mkdir(dbg, ds) == IF ~dbg THEN ds \cup {builtins_dir} ELSE ds

(* Faulty variant: a file that exists is left as it is. *)
write_text_keepFirst(fs, path, content) ==
    [p \in DOMAIN fs \cup {path} |-> IF p \in DOMAIN fs THEN fs[p] ELSE content]

write_text(fs, path, content) ==
    [p \in DOMAIN fs \cup {path} |-> IF p = path THEN content ELSE fs[p]]

BannerWidth == 60

PathStr(path) == Join(path, <<"/">>)

(* str.center: the text is kept when it is wide enough; else the padding   *)
(* is split, the left side getting the odd character when the width is    *)
(* odd.                                                                    *)
Center(s, width, fill) ==
    IF Len(s) >= width THEN s
    ELSE LET marg  == width - Len(s)
             left  == (marg \div 2) + (IF marg % 2 = 1 /\ width % 2 = 1 THEN 1 ELSE 0)
             right == marg - left
         IN  [i \in 1..left |-> fill] \o s \o [i \in 1..right |-> fill]

print_file(path, content) ==
    <<"//", " ">> \o Center(<<" ">> \o PathStr(path) \o <<" ">>, BannerWidth, "-") \o NL
    \o content \o NL

-----------------------------------------------------------------------------
(* The inputs of a run. *)

Line(name, args) == <<"p", "r", "e", "d", "i", "c", "a", "t", "e", " ">> \o name \o <<"(">> \o Join(args, <<",">>) \o <<")">>

FileLines ==
    { Line(<<"i", "n", "t", "_", "e", "q">>, <<<<"i", "n", "t", ":", " ", "a">>, <<" ", "i", "n", "t", ":", " ", "b">>>>),
      Line(<<"p">>, <<<<"b", "o", "o", "l", ":", " ", "x">>>>),
      Line(<<"p">>, <<<<"v", "a", "r", " ", "b", "o", "o", "l", ":", " ", "y", "y">>>>),
      Line(<<"c", "l", "o", "s", "e", "_", "t", "o">>, <<<<"a", "r", "r", "a", "y", " ", "[", "i", "n", "t", "]", " ", "o", "f", " ", "v", "a", "r", " ", "i", "n", "t", ":", " ", "x", "s">>, <<" ", "v", "a", "r", " ", "i", "n", "t", ":", " ", "y">>>>),
      Line(<<"P">>, <<<<"i", "n", "t", ":", " ", "a">>>>),
      Line(<<"m", "o", "d">>, <<<<"b", "o", "o", "l", ":", " ", "b">>, <<" ", "v", "a", "r", " ", "b", "o", "o", "l", ":", " ", "b", "s">>>>),
      <<"%", " ", "a", " ", "c", "o", "m", "m", "e", "n", "t">>,
      <<"%", "p", "r", "e", "d", "i", "c", "a", "t", "e", " ", "q", "(", "i", "n", "t", ":", " ", "a", ")">>,
      <<" ", "%", " ", "i", "n", "d", "e", "n", "t", "e", "d">>,
      <<>>,
      <<" ", " ">>,
      Line(<<"b", "a", "d", "-", "n", "a", "m", "e">>, <<<<"i", "n", "t", ":", " ", "x">>>>),
      Line(<<"9", "x">>, <<<<"i", "n", "t", ":", " ", "x">>>>),
      Line(<<"a", " ", "b">>, <<<<"i", "n", "t", ":", " ", "x">>>>),
      Line(<<"q">>, <<<<"i", "n", "t", " ", "x">>>>) }

FileText(ls, nl) == Join(ls, <<"\n">>) \o (IF nl THEN <<"\n">> ELSE <<>>)

Inputs == {FileText(ls, nl) : ls \in SeqsUpTo(FileLines, MaxLines), nl \in BOOLEAN}

-----------------------------------------------------------------------------
(* The run: argparse, then main. *)

NotCalled == [called |-> FALSE]

Init ==
    /\ pc = "argparse"
    /\ debug \in BOOLEAN
    /\ \E t \in InitialTrees :
          /\ out_kind = t.kind
          /\ dirs = t.dirs
          /\ files = t.files
    /\ raw = <<>>
    /\ lines = <<>>
    /\ line_no = 0
    /\ predicates = <<>>
    /\ path_content = <<>>
    /\ out_idx = 0
    /\ stdout = <<>>
    /\ fn = "main"
    /\ arg = <<>>
    /\ ret = NotCalled

(* parser.parse_args: the output argument goes through output_dir. *)
ParseArgs ==
    /\ pc = "argparse"
    /\ pc' = IF output_dir(out_kind, dirs, files).ok THEN "main" ELSE "usage_error"
    /\ UNCHANGED <<debug, out_kind, dirs, files, raw, lines, line_no, predicates,
                   path_content, out_idx, stdout, fn, arg, ret>>

(* main, line 386, and the start of Predicate.from_file. *)
ReadInput ==
    /\ pc = "main"
    /\ \E text \in Inputs :
          /\ raw' = text
          /\ lines' = SplitLines(text)
    /\ line_no' = 1
    /\ predicates' = <<>>
    /\ pc' = "from_file"
    /\ UNCHANGED <<debug, out_kind, dirs, files, path_content, out_idx, stdout,
                   fn, arg, ret>>

(* One turn of the loop of Predicate.from_file. *)
FromFileLine ==
    /\ pc = "from_file"
    /\ line_no <= Len(lines)
    /\ LET r == from_file_step(predicates, lines[line_no])
       IN  IF r.ok
           THEN /\ predicates' = r.val
                /\ line_no' = line_no + 1
                /\ pc' = "from_file"
           ELSE /\ predicates' = predicates
                /\ line_no' = line_no
                /\ pc' = "ParsingError"
    /\ UNCHANGED <<debug, out_kind, dirs, files, raw, lines, path_content, out_idx,
                   stdout, fn, arg, ret>>

(* Predicate.from_file returns; main, lines 388 to 408. *)
Assemble ==
    /\ pc = "from_file"
    /\ line_no > Len(lines)
    /\ dirs' = main_mkdir(debug, dirs)
    /\ path_content' = main_path_content(predicates)
    /\ out_idx' = 1
    /\ pc' = "fn_out"
    /\ UNCHANGED <<debug, out_kind, files, raw, lines, line_no, predicates, stdout,
                   fn, arg, ret>>

(* One turn of the loop of write_files or of print_files. *)
OutputUnit ==
    /\ pc = "fn_out"
    /\ out_idx <= Len(path_content)
    /\ LET path    == path_content[out_idx][1]
           content == path_content[out_idx][2]
       IN  IF debug
           THEN /\ stdout' = stdout \o print_file(path, content)
                /\ files' = files
           ELSE /\ files' = write_text(files, path, content)
                /\ stdout' = stdout
    /\ out_idx' = out_idx + 1
    /\ UNCHANGED <<pc, debug, out_kind, dirs, raw, lines, line_no, predicates,
                   path_content, fn, arg, ret>>

Finish ==
    /\ pc = "fn_out"
    /\ out_idx > Len(path_content)
    /\ pc' = "done"
    /\ UNCHANGED <<debug, out_kind, dirs, files, raw, lines, line_no, predicates,
                   path_content, out_idx, stdout, fn, arg, ret>>

Next == ParseArgs \/ ReadInput \/ FromFileLine \/ Assemble \/ OutputUnit \/ Finish

Spec == Init /\ [][Next]_vars

-----------------------------------------------------------------------------
(* The functions of the module called on their own: one call per           *)
(* behaviour, the argument drawn from the inputs of the function.          *)

IdentAlphabet == {"a", "Z", "7", "_", "-", " "}

IdentInputs == SeqsUpTo(IdentAlphabet, MaxIdentLen)

CamelInputs ==
    { <<"c", "l", "o", "s", "e", "_", "t", "o">>, <<"i", "n", "t", "_", "e", "q">>, <<"x">>, <<"i", "n", "t", "E", "q">>, <<"a", "_", "_", "b">>, <<"_", "a">>, <<"a", "_">>, <<"A", "_", "1", "b">>,
      <<"a", "l", "l", "_", "d", "i", "f", "f", "e", "r", "e", "n", "t", "_", "i", "n", "t">>, <<>> }

NoSpaces(t) == SelectSeq(t, LAMBDA c : c # " ")

DoubleSpaces(t) == Concat([i \in DOMAIN t |-> IF t[i] = " " THEN <<" ", " ">> ELSE <<t[i]>>])

TypeInputs ==
    UNION { { t, <<" ">> \o t, t \o <<" ">>, Capitalize(t), [i \in DOMAIN t |-> ToUpper(t[i])],
              SubSeq(t, 1, Len(t) - 1), t \o <<"s">>, DoubleSpaces(t), NoSpaces(t) } :
            t \in {ARG_TYPE_FACTORY[i].flatzinc_type : i \in DOMAIN ARG_TYPE_FACTORY} }
    \cup {<<>>}

ArgPieces ==
    { <<"i", "n", "t">>, <<" ", "v", "a", "r", " ", "b", "o", "o", "l", " ">>, <<"a", "r", "r", "a", "y", " ", "[", "i", "n", "t", "]", " ", "o", "f", " ", "v", "a", "r", " ", "i", "n", "t">>, <<"I", "n", "t">>, <<"v", "a", "r", " ", " ", "i", "n", "t">>,
      <<"x">>, <<" ", "a", "b">>, <<"a", "b", "c", "\t">>, <<"b", "2", "_", "d">>, <<"a", "-", "b">>, <<>>, <<" ">> }

ArgInputs == {Join(ps, <<":">>) : ps \in UNION {[1..k -> ArgPieces] : k \in 1..MaxParts}}

LinePrefixes == {<<"p", "r", "e", "d", "i", "c", "a", "t", "e", " ">>, <<"p", "r", "e", "d", "i", "c", "a", "t", "e">>, <<"P", "r", "e", "d", "i", "c", "a", "t", "e", " ">>}

PredNames ==
    { <<"i", "n", "t", "_", "e", "q">>, <<"c", "l", "o", "s", "e", "_", "t", "o">>, <<"x">>, <<"p">>, <<"i", "n", "t", "E", "q">>,
      <<"b", "a", "d", "-", "n", "a", "m", "e">>, <<"9", "x">>, <<"a", " ", "b">>, <<" ", "p">>, <<>> }

LineArgs ==
    { <<"i", "n", "t", ":", " ", "a">>, <<" ", "v", "a", "r", " ", "b", "o", "o", "l", ":", " ", "b", "s">>, <<"a", "r", "r", "a", "y", " ", "[", "i", "n", "t", "]", " ", "o", "f", " ", "v", "a", "r", " ", "i", "n", "t", ":", " ", "x", "s", "_", "1">>, <<" ", "v", "a", "r", " ", "i", "n", "t", ":", " ", "b">>,
      <<"i", "n", "t", " ", "a">>, <<"b", "o", "o", "l", ":", " ", "9">> }

LineSuffixes == {<<>>, <<" ">>}

PredInputs ==
    { pre \o name \o <<"(">> \o Join(as, <<",">>) \o <<")">> \o suf :
        pre \in LinePrefixes, name \in PredNames,
        as \in SeqsUpTo(LineArgs, MaxArgs), suf \in LineSuffixes }
    \cup {<<>>, <<"%", " ", "a", " ", "c", "o", "m", "m", "e", "n", "t">>}

(* What the fields of a value may serialize to. *)
ArgSerials == {<<"x">>, <<"[", "1", ",", " ", "2", "]">>, <<"t", "r", "u", "e">>}

Called(r) == [called |-> TRUE, r |-> r]

InitFn ==
    /\ pc = "idle"
    /\ debug = FALSE
    /\ out_kind = "missing"
    /\ dirs = {}
    /\ files = NoFiles
    /\ raw = <<>>
    /\ lines = <<>>
    /\ line_no = 0
    /\ predicates = <<>>
    /\ path_content = <<>>
    /\ out_idx = 0
    /\ stdout = <<>>
    /\ ret = NotCalled
    /\ \/ fn = "upper_camel" /\ arg \in CamelInputs
       \/ fn = "Identifier.check" /\ arg \in IdentInputs
       \/ fn = "ArgTypeFactory.from_str" /\ arg \in TypeInputs
       \/ fn = "Arg.from_str" /\ arg \in ArgInputs
       \/ fn = "Predicate.from_str" /\ arg \in PredInputs

Frame ==
    UNCHANGED <<pc, debug, out_kind, dirs, files, raw, lines, line_no, predicates,
                path_content, out_idx, stdout, fn, arg>>

Call_upper_camel ==
    /\ fn = "upper_camel" /\ ~ret.called
    /\ ret' = Called(upper_camel(arg))
    /\ Frame

Call_Identifier_check ==
    /\ fn = "Identifier.check" /\ ~ret.called
    /\ ret' = Called(Identifier_check(arg))
    /\ Frame

Call_ArgTypeFactory_from_str ==
    /\ fn = "ArgTypeFactory.from_str" /\ ~ret.called
    /\ ret' = Called(ArgTypeFactory_from_str(arg))
    /\ Frame

Call_Arg_from_str ==
    /\ fn = "Arg.from_str" /\ ~ret.called
    /\ ret' = Called(Arg_from_str(arg))
    /\ Frame

Call_Predicate_from_str ==
    /\ fn = "Predicate.from_str" /\ ~ret.called
    /\ ret' = Called(Predicate_from_str(arg))
    /\ Frame

(* The returned Predicate emits its impl block. *)
Call_rust_impl ==
    /\ fn = "Predicate.from_str" /\ ret.called /\ ret.r.ok
    /\ "impl" \notin DOMAIN ret
    /\ ret' = [impl |-> rust_impl(ret.r.val)] @@ ret
    /\ Frame

(* The returned Predicate emits its unit: rust_file and the blocks it is   *)
(* made of.                                                                *)
Call_rust_file ==
    /\ fn = "Predicate.from_str" /\ ret.called /\ ret.r.ok
    /\ "file" \notin DOMAIN ret
    /\ ret' = [file                |-> Predicate_rust_file(ret.r.val),
               imports             |-> rust_imports(ret.r.val),
               struct              |-> rust_struct(ret.r.val),
               new                 |-> rust_new(ret.r.val),
               getters             |-> rust_getters(ret.r.val),
               try_from_item       |-> rust_try_from_item(ret.r.val),
               flatzinc            |-> rust_impl_flatzinc(ret.r.val),
               try_from_constraint |-> rust_try_from_constraint(ret.r.val),
               from_for_constraint |-> rust_from_for_constraint(ret.r.val)] @@ ret
    /\ Frame

(* One piece of emitted code is run per behaviour. *)
NotRun == DOMAIN ret \cap {"fzn", "factory", "conv"} = {}

(* The values of a generated type, and the variants of the tagged union    *)
(* that the narrowing may be given.                                        *)
TypeValues == {"v1", "v2"}

Variants == {<<"P">>, <<"X">>, <<"I", "n", "t", "E", "q">>, <<"I", "n", "t", "e", "q">>, <<"C", "l", "o", "s", "e", "T", "o">>, <<"O", "t", "h", "e", "r">>}

(* The emitted widening is run on a value, and the emitted narrowing on    *)
(* the result and on a value of some variant.                              *)
Run_conversions ==
    /\ fn = "Predicate.from_str" /\ ret.called /\ ret.r.ok
    /\ "file" \in DOMAIN ret
    /\ NotRun
    /\ \E v \in TypeValues, w \in Variants :
          LET widened == from_for_constraint_run(ret.r.val, v)
              other   == [variant |-> w, carries |-> v]
          IN  ret' = [conv |-> [value          |-> v,
                                widened        |-> widened,
                                narrowed       |-> try_from_constraint_run(ret.r.val, widened),
                                other          |-> other,
                                narrowed_other |-> try_from_constraint_run(ret.r.val, other)]]
                     @@ ret
    /\ Frame

(* The items the emitted factory is given: the identifier of the           *)
(* predicate or another one, and up to one expression too many.            *)
Items(self) ==
    [id : {self.identifier, <<"o", "t", "h", "e", "r">>}, exprs : 0..(MaxArgs + 1)]

(* The emitted factory is run on an item. *)
Run_try_from_item ==
    /\ fn = "Predicate.from_str" /\ ret.called /\ ret.r.ok
    /\ "file" \in DOMAIN ret
    /\ NotRun
    /\ \E item \in Items(ret.r.val) :
          ret' = [factory |-> [item |-> item, out |-> try_from_item_run(ret.r.val, item)]] @@ ret
    /\ Frame

(* The emitted serializer is run on a value of the returned Predicate. *)
Run_fzn ==
    /\ fn = "Predicate.from_str" /\ ret.called /\ ret.r.ok
    /\ "file" \in DOMAIN ret
    /\ NotRun
    /\ \E fields \in [DOMAIN ret.r.val.args -> ArgSerials] :
          ret' = [fzn |-> [fields |-> fields, out |-> fzn_render(ret.r.val, fields)]] @@ ret
    /\ Frame

(* The returned Predicate is rendered with str(), and the text is parsed   *)
(* again.                                                                  *)
Call_str ==
    /\ fn = "Predicate.from_str" /\ ret.called /\ ret.r.ok
    /\ DOMAIN ret \cap {"str", "impl", "file"} = {}
    /\ LET s == Predicate_str(ret.r.val)
       IN  ret' = [str |-> s, again |-> Predicate_from_str(s)] @@ ret
    /\ Frame

NextFn ==
    \/ Call_upper_camel
    \/ Call_Identifier_check
    \/ Call_ArgTypeFactory_from_str
    \/ Call_Arg_from_str
    \/ Call_Predicate_from_str
    \/ Call_rust_impl
    \/ Call_rust_file
    \/ Run_fzn
    \/ Run_try_from_item
    \/ Run_conversions
    \/ Call_str

SpecFn == InitFn /\ [][NextFn]_vars

-----------------------------------------------------------------------------
(* The vocabulary of the properties. *)

(* The whole of s is a letter followed by letters, digits and underscores. *)
WellFormedIdent(s) ==
    /\ Len(s) >= 1
    /\ s[1] \in Letter
    /\ \A i \in 2..Len(s) : s[i] \in Letter \cup Range(Digits) \cup {"_"}

RegisteredTokens ==
    { <<"i", "n", "t">>, <<"v", "a", "r", " ", "i", "n", "t">>, <<"a", "r", "r", "a", "y", " ", "[", "i", "n", "t", "]", " ", "o", "f", " ", "i", "n", "t">>, <<"a", "r", "r", "a", "y", " ", "[", "i", "n", "t", "]", " ", "o", "f", " ", "v", "a", "r", " ", "i", "n", "t">>,
      <<"b", "o", "o", "l">>, <<"v", "a", "r", " ", "b", "o", "o", "l">>, <<"a", "r", "r", "a", "y", " ", "[", "i", "n", "t", "]", " ", "o", "f", " ", "b", "o", "o", "l">>, <<"a", "r", "r", "a", "y", " ", "[", "i", "n", "t", "]", " ", "o", "f", " ", "v", "a", "r", " ", "b", "o", "o", "l">> }

Colons(s) == {i \in DOMAIN s : s[i] = ":"}

LeftOfColon(s) == SubSeq(s, 1, (CHOOSE i \in Colons(s) : TRUE) - 1)

RightOfColon(s) == Drop(s, CHOOSE i \in Colons(s) : TRUE)

(* The text without its leading and trailing whitespace. *)
Trimmed(s) ==
    LET inner == {i \in DOMAIN s : s[i] \notin Whitespace}
    IN  IF inner = {} THEN <<>>
        ELSE SubSeq(s, CHOOSE i \in inner : \A j \in inner : i <= j,
                       CHOOSE i \in inner : \A j \in inner : i >= j)

Returned(f) == fn = f /\ ret.called

(* The shape of a predicate line, read off the text. *)
FirstParen(l) == CHOOSE i \in DOMAIN l : l[i] = "(" /\ \A j \in 1..(i - 1) : l[j] # "("

HasNamePart(l) == StartsWith(l, <<"p", "r", "e", "d", "i", "c", "a", "t", "e", " ">>) /\ "(" \in Range(l)

NameText(l) == SubSeq(l, Len(<<"p", "r", "e", "d", "i", "c", "a", "t", "e", " ">>) + 1, FirstParen(l) - 1)

ArgsText(l) == SubSeq(l, FirstParen(l) + 1, Len(l) - 1)

ValidArgText(s) ==
    /\ Cardinality(Colons(s)) = 1
    /\ Trimmed(LeftOfColon(s)) \in RegisteredTokens
    /\ WellFormedIdent(Trimmed(RightOfColon(s)))

ValidLine(l) ==
    /\ HasNamePart(l)
    /\ l[Len(l)] = ")"
    /\ FirstParen(l) < Len(l)
    /\ WellFormedIdent(NameText(l))
    /\ LET specs == Split(ArgsText(l), ",")
       IN  \A i \in DOMAIN specs : ValidArgText(specs[i])

BadNameLine(l) == HasNamePart(l) /\ ~WellFormedIdent(NameText(l))

IsComment(l) == l # <<>> /\ l[1] = "%"

IsBlank(l) == \A i \in DOMAIN l : l[i] \in Whitespace

(* The lines of the input that are neither blank nor comments. *)
Declared == {k \in DOMAIN lines : ~IsBlank(lines[k]) /\ ~IsComment(lines[k])}

BadLines == {k \in DOMAIN lines : ~IsComment(lines[k]) /\ ~ValidLine(lines[k])}

Ended == pc \in {"done", "ParsingError"}

NothingProduced ==
    /\ path_content = <<>>
    /\ builtins_dir \notin dirs
    /\ DOMAIN files = {}
    /\ stdout = <<>>

(* out is name without its underscores, each character that starts the     *)
(* name or follows an underscore in upper case, every other in lower case. *)
IsCamelOf(name, out) ==
    LET kept(i) == Cardinality({j \in 1..i : name[j] # "_"})
    IN  /\ Len(out) = kept(Len(name))
        /\ \A i \in DOMAIN name :
               name[i] # "_" =>
                   out[kept(i)] = IF i = 1 \/ name[i - 1] = "_"
                                  THEN ToUpper(name[i]) ELSE ToLower(name[i])

(* The lines without the one at position k, and with c put after the      *)
(* first k of them.                                                        *)
RemoveAt(ls, k) == SubSeq(ls, 1, k - 1) \o SubSeq(ls, k + 1, Len(ls))

InsertAt(ls, k, c) == SubSeq(ls, 1, k) \o <<c>> \o SubSeq(ls, k + 1, Len(ls))

CommentLines == {<<"%", " ", "a", " ", "c", "o", "m", "m", "e", "n", "t">>, <<"%">>, <<"%", "p", "r", "e", "d", "i", "c", "a", "t", "e", " ", "q", "(", "i", "n", "t", ":", " ", "a", ")">>}

(* A unit has been emitted for the Predicate that from_str returned. *)
Emitted == Returned("Predicate.from_str") /\ "file" \in DOMAIN ret

(* The lines of a text given character by character. *)
TextLines(text) == Split(text, "\n")

Occurrences(ls, l) == Cardinality({i \in DOMAIN ls : ls[i] = l})

(* Every stretch of an emitted text between a chunk open and the first     *)
(* chunk close after it, in the order of the text.                         *)
RECURSIVE AllBetween(_, _, _)
AllBetween(text, open, close) ==
    IF open \notin Range(text) THEN <<>>
    ELSE LET i == CHOOSE k \in DOMAIN text : text[k] = open /\ \A m \in 1..(k - 1) : text[m] # open
             j == CHOOSE k \in (i + 1)..Len(text) :
                      text[k] = close /\ \A m \in (i + 1)..(k - 1) : text[m] # close
         IN  <<SubSeq(text, i + 1, j - 1)>> \o AllBetween(Drop(text, j), open, close)

(* The argument specs of a line as written, and what the line declares:    *)
(* the name after the fix-up rule and the target type of the token.        *)
WrittenSpecs(l) == Split(ArgsText(l), ",")

DeclaredName(s) ==
    LET w == Trimmed(RightOfColon(s)) IN IF Len(w) = 2 THEN <<w[1]>> ELSE w

DeclaredType(s) ==
    LET d == CHOOSE i \in DOMAIN ARG_TYPE_FACTORY :
                 ARG_TYPE_FACTORY[i].flatzinc_type = Trimmed(LeftOfColon(s))
    IN  ARG_TYPE_FACTORY[d].rust_type

(* The run has assembled its units. *)
Assembled == pc \in {"fn_out", "done"}

(* The lines of the input that are not comments, in input order. *)
KeptLines == SelectSeq(lines, LAMBDA l : ~IsComment(l))

(* The output path is not an empty directory. *)
BadOutput == out_kind # "dir" \/ dirs # {} \/ DOMAIN files # {}

(* The text a occurs in the text b. *)
OccursIn(a, b) == \E i \in 0..(Len(b) - Len(a)) : SubSeq(b, i + 1, i + Len(a)) = a

(* What print_files has written after the first n units. *)
RECURSIVE Printed(_)
Printed(n) ==
    IF n = 0 THEN <<>>
    ELSE Printed(n - 1) \o print_file(path_content[n][1], path_content[n][2])

(* The descriptors of the Args of a predicate. *)
DescriptorsOf(args) == {args[i].type : i \in DOMAIN args}

(* The sequences of up to n Args taken from args that use every descriptor *)
(* of args: its permutations, and its Args repeated.                       *)
Rearranged(args, n) ==
    {q \in UNION {[1..m -> Range(args)] : m \in 1..n} :
        DescriptorsOf(q) = DescriptorsOf(args)}

(* No element of the sequence occurs twice. *)
PairwiseDistinct(s) == \A i, j \in DOMAIN s : s[i] = s[j] => i = j

(* The names declared by the input, in input order. *)
DeclaredNames == [i \in DOMAIN KeptLines |-> NameText(KeptLines[i])]

-----------------------------------------------------------------------------
(* C1.  For every line accepted by Predicate.from_str, the emitted NAME    *)
(* constant is the text between the prefix and the first opening           *)
(* parenthesis of the line, and the emitted NB_ARGS constant is the number *)
(* of comma-separated argument specs between the parentheses.              *)
C1_NameAndArity ==
    Returned("Predicate.from_str") /\ ret.r.ok /\ "impl" \in DOMAIN ret =>
        /\ EmittedBetween(ret.impl, "pub const NAME: &str = \"", "\";") = NameText(arg)
        /\ DecimalValue(EmittedBetween(ret.impl, "pub const NB_ARGS: usize = ", ";"))
               = Cardinality({i \in DOMAIN ArgsText(arg) : ArgsText(arg)[i] = ","}) + 1

C1_Witness ==
    /\ Returned("Predicate.from_str")
    /\ "impl" \in DOMAIN ret
    /\ NameText(arg) = <<"c", "l", "o", "s", "e", "_", "t", "o">>
    /\ EmittedBetween(ret.impl, "pub const NB_ARGS: usize = ", ";") = <<"2">>

(* C2, as stated.  For any input with N lines that are neither blank nor   *)
(* comments, the run produces N per-predicate units and the 3 aggregate    *)
(* units.                                                                  *)
C2_AnyInput ==
    Ended => Len(path_content) = Cardinality(Declared) + 3

(* C2, amended.  For any input all of whose non-comment lines are valid    *)
(* predicate lines, N of them, the run produces the 3 aggregate units      *)
(* builtins/mod.rs, constraint.rs and mod.rs, and N per-predicate units.   *)
C2_ValidInput ==
    Ended /\ BadLines = {} =>
        /\ pc = "done"
        /\ Len(path_content) = Cardinality(Declared) + 3
        /\ path_content[1][1] = <<OutputArg, <<"b", "u", "i", "l", "t", "i", "n", "s">>, <<"m", "o", "d", ".", "r", "s">>>>
        /\ path_content[2][1] = <<OutputArg, <<"c", "o", "n", "s", "t", "r", "a", "i", "n", "t", ".", "r", "s">>>>
        /\ path_content[3][1] = <<OutputArg, <<"m", "o", "d", ".", "r", "s">>>>
        /\ Len(predicates) = Cardinality(Declared)
        /\ \A i \in DOMAIN predicates :
               path_content[3 + i][1] =
                   <<OutputArg, <<"b", "u", "i", "l", "t", "i", "n", "s">>, predicates[i].identifier \o <<".", "r", "s">>>>

C2_Witness ==
    /\ pc = "done"
    /\ Cardinality(Declared) = 2
    /\ Len(lines) = 2
    /\ Len(path_content) = 5

(* C3.  If a non-comment line of the input fails to parse, the run ends    *)
(* with a ParsingError and nothing is produced: no unit is built, the      *)
(* builtins directory is not created, nothing is written or printed,       *)
(* however many earlier lines parsed.                                      *)
C3_AllOrNothing ==
    BadLines # {} =>
        LET first == CHOOSE k \in BadLines : \A j \in BadLines : k <= j
        IN  /\ pc \in {"from_file", "ParsingError"}
            /\ pc = "from_file" => line_no <= first
            /\ pc = "ParsingError" => line_no = first
            /\ NothingProduced

C3_Witness ==
    /\ pc = "ParsingError"
    /\ ~debug
    /\ line_no = 2
    /\ Len(predicates) = 1
    /\ NothingProduced

-----------------------------------------------------------------------------
(* C4.  Identifier.check(s) returns s unchanged exactly when the whole of  *)
(* s is a letter followed by letters, digits and underscores; every other  *)
(* string, the empty one included, raises ParsingError.                    *)
C4_IdentifierCheck ==
    Returned("Identifier.check") =>
        /\ ret.r.ok <=> WellFormedIdent(arg)
        /\ ret.r.ok => ret.r.val = arg
        /\ arg = <<>> => ~ret.r.ok

C4_Witness ==
    /\ Returned("Identifier.check")
    /\ ret.r.ok
    /\ Len(arg) = MaxIdentLen
    /\ "_" \in Range(arg)
    /\ "7" \in Range(arg)

(* C5.  ArgTypeFactory.from_str(token) returns the registry entry whose    *)
(* flatzinc_type equals the token, for exactly the 8 registered tokens,    *)
(* and raises ParsingError for every other string: no prefix, no case      *)
(* folding, no whitespace normalisation.                                   *)
C5_ExactLookup ==
    Returned("ArgTypeFactory.from_str") =>
        /\ ret.r.ok <=> arg \in RegisteredTokens
        /\ ret.r.ok =>
              /\ ret.r.val.flatzinc_type = arg
              /\ \E i \in DOMAIN ARG_TYPE_FACTORY : ret.r.val = ARG_TYPE_FACTORY[i]
        /\ Cardinality(RegisteredTokens) = 8
        /\ arg \in {<<"v", "a", "r", " ", " ", "i", "n", "t">>, <<"a", "r", "r", "a", "y", "[", "i", "n", "t", "]", " ", "o", "f", " ", "i", "n", "t">>, <<"I", "n", "t">>, <<" ", "b", "o", "o", "l">>, <<"b", "o", "o">>}
              => ~ret.r.ok

C5_Witness ==
    /\ Returned("ArgTypeFactory.from_str")
    /\ ~ret.r.ok
    /\ arg = <<"v", "a", "r", " ", " ", "i", "n", "t">>

(* C6.  The 8 registered tokens resolve to pairwise distinct descriptors:  *)
(* two different tokens differ in rust_type and in rust_expr_fn.           *)
C6_DistinctDescriptors ==
    Returned("ArgTypeFactory.from_str") /\ ret.r.ok =>
        \A t \in RegisteredTokens \ {arg} :
            LET other == ArgTypeFactory_from_str(t)
            IN  /\ other.ok
                /\ other.val.rust_type # ret.r.val.rust_type
                /\ other.val.rust_expr_fn # ret.r.val.rust_expr_fn
                /\ other.val # ret.r.val

C6_Witness ==
    /\ Returned("ArgTypeFactory.from_str")
    /\ ret.r.ok
    /\ arg = <<"v", "a", "r", " ", "b", "o", "o", "l">>
    /\ ret.r.val.rust_type = <<"R", "c", "<", "V", "a", "r", "B", "o", "o", "l", ">">>
    /\ ArgTypeFactory_from_str(<<"b", "o", "o", "l">>).val.rust_type = <<"b", "o", "o", "l">>

(* C7.  Arg.from_str(s) succeeds only when s holds exactly one colon and,  *)
(* once trimmed, its left part is a registered type token and its right    *)
(* part a valid identifier; no colon, two colons or more, an empty type    *)
(* part or an empty name part raise ParsingError.                          *)
C7_ArgShape ==
    Returned("Arg.from_str") =>
        /\ ret.r.ok <=>
              /\ Cardinality(Colons(arg)) = 1
              /\ Trimmed(LeftOfColon(arg)) \in RegisteredTokens
              /\ WellFormedIdent(Trimmed(RightOfColon(arg)))
        /\ Cardinality(Colons(arg)) # 1 => ~ret.r.ok
        /\ Cardinality(Colons(arg)) = 1 /\ Trimmed(LeftOfColon(arg)) = <<>> => ~ret.r.ok
        /\ Cardinality(Colons(arg)) = 1 /\ Trimmed(RightOfColon(arg)) = <<>> => ~ret.r.ok
        /\ ret.r.ok => ret.r.val.type.flatzinc_type = Trimmed(LeftOfColon(arg))

C7_Witness ==
    /\ Returned("Arg.from_str")
    /\ ret.r.ok
    /\ LeftOfColon(arg) = <<" ", "v", "a", "r", " ", "b", "o", "o", "l", " ">>
    /\ RightOfColon(arg) = <<"a", "b", "c", "\t">>

(* C8.  The stored name of a parsed Arg is the first character of the      *)
(* written name when the written name has exactly two characters, and the  *)
(* written name unchanged for every other length.                          *)
C8_NameFixup ==
    Returned("Arg.from_str") /\ ret.r.ok =>
        LET written == Trimmed(RightOfColon(arg))
            stored  == ret.r.val.identifier
        IN  /\ Len(written) = 2 => Len(stored) = 1 /\ stored[1] = written[1]
            /\ Len(written) # 2 => stored = written

C8_Witness ==
    /\ Returned("Arg.from_str")
    /\ ret.r.ok
    /\ Trimmed(RightOfColon(arg)) = <<"a", "b">>
    /\ ret.r.val.identifier = <<"a">>

(* C9.  Predicate.from_str raises ParsingError whenever the text between   *)
(* the prefix and the first opening parenthesis is not a valid identifier, *)
(* even when every argument spec is valid; such a line yields no unit.     *)
C9_BadName ==
    \A k \in DOMAIN lines :
        BadNameLine(lines[k]) =>
            /\ pc = "from_file" \/ (pc = "ParsingError" /\ line_no <= k)
            /\ pc = "from_file" => line_no <= k
            /\ path_content = <<>>
            /\ Len(predicates) < k

C9_Witness ==
    /\ pc = "ParsingError"
    /\ line_no = 2
    /\ lines[2] = Line(<<"b", "a", "d", "-", "n", "a", "m", "e">>, <<<<"i", "n", "t", ":", " ", "x">>>>)
    /\ ValidArgText(ArgsText(lines[2]))
    /\ Len(predicates) = 1

(* C10.  upper_camel splits the name at the underscores, capitalizes each  *)
(* segment and concatenates the segments; the generated type name of a     *)
(* Predicate is upper_camel of its identifier and of nothing else.         *)
C10_UpperCamel ==
    /\ Returned("upper_camel") =>
          /\ IsCamelOf(arg, ret.r)
          /\ arg = <<"c", "l", "o", "s", "e", "_", "t", "o">> => ret.r = <<"C", "l", "o", "s", "e", "T", "o">>
          /\ arg = <<"i", "n", "t", "_", "e", "q">> => ret.r = <<"I", "n", "t", "E", "q">>
          /\ arg = <<"x">> => ret.r = <<"X">>
    /\ Returned("Predicate.from_str") /\ ret.r.ok =>
          /\ ret.r.val.identifier = NameText(arg)
          /\ IsCamelOf(NameText(arg), ret.r.val.rust_name)

C10_Witness ==
    /\ Returned("Predicate.from_str")
    /\ ret.r.ok
    /\ ret.r.val.identifier = <<"c", "l", "o", "s", "e", "_", "t", "o">>
    /\ ret.r.val.rust_name = <<"C", "l", "o", "s", "e", "T", "o">>
    /\ Len(ret.r.val.args) = 2

(* C11.  Predicate.from_file skips every line whose first character is the *)
(* percent sign and returns the Predicates of the other lines in input     *)
(* order; the input with a comment line removed, or with a comment line    *)
(* inserted at any position, gives the same Predicates and the same units. *)
C11_CommentsSkipped ==
    pc \in {"fn_out", "done"} =>
        LET kept == SelectSeq(lines, LAMBDA l : ~IsComment(l))
            same(ls) ==
                \A nl \in (IF ls = <<>> THEN {FALSE} ELSE BOOLEAN) :
                    LET r == Predicate_from_file(FileText(ls, nl))
                    IN  /\ r = Return(predicates)
                        /\ main_path_content(r.val) = path_content
        IN  /\ Len(predicates) = Len(kept)
            /\ \A i \in DOMAIN kept : Predicate_from_str(kept[i]) = Return(predicates[i])
            /\ \A k \in DOMAIN lines : IsComment(lines[k]) => same(RemoveAt(lines, k))
            /\ \A k \in 0..Len(lines) : \A c \in CommentLines : same(InsertAt(lines, k, c))

C11_Witness ==
    /\ pc = "done"
    /\ lines = <<<<"%", " ", "a", " ", "c", "o", "m", "m", "e", "n", "t">>, Line(<<"p">>, <<<<"b", "o", "o", "l", ":", " ", "x">>>>)>>
    /\ Len(predicates) = 1
    /\ predicates[1].identifier = <<"p">>
    /\ Len(path_content) = 4

(* C12.  In the import block of a predicate every import line occurs once: *)
(* for each Arg, the import of its conversion function occurs exactly once *)
(* and, when its type has one, the import of its type occurs exactly once, *)
(* whether Args share a descriptor or only an import text.                 *)
C12_ImportsOnce ==
    Emitted =>
        LET ls   == TextLines(ret.imports)
            args == ret.r.val.args
        IN  /\ \A i \in DOMAIN ls : ls[i] # <<>> => Occurrences(ls, ls[i]) = 1
            /\ \A a \in DOMAIN args :
                  /\ Occurrences(ls, <<"u", "s", "e", " ", "c", "r", "a", "t", "e", ":", ":", "f", "z", "n", ":", ":", "p", "a", "r", "s", "e", "r", ":", ":">> \o args[a].type.rust_expr_fn \o <<";">>) = 1
                  /\ args[a].type.rust_import # <<>> =>
                        Occurrences(ls, RStrip(args[a].type.rust_import)) = 1

C12_Witness ==
    /\ Emitted
    /\ Len(ret.r.val.args) = 2
    /\ ret.r.val.args[1].type.flatzinc_type = <<"a", "r", "r", "a", "y", " ", "[", "i", "n", "t", "]", " ", "o", "f", " ", "v", "a", "r", " ", "i", "n", "t">>
    /\ ret.r.val.args[2].type.flatzinc_type = <<"v", "a", "r", " ", "i", "n", "t">>
    /\ ret.r.val.args[1].type.rust_import = ret.r.val.args[2].type.rust_import
    /\ Occurrences(TextLines(ret.imports), <<"u", "s", "e", " ", "c", "r", "a", "t", "e", ":", ":", "f", "z", "n", ":", ":", "v", "a", "r", ":", ":", "V", "a", "r", "I", "n", "t", ";">>) = 1

(* C13.  The import block of a predicate holds the import of Rc exactly    *)
(* when an Arg of the predicate has a type that needs sharing.             *)
C13_RcWhenShared ==
    Emitted =>
        (Occurrences(TextLines(ret.imports), <<"u", "s", "e", " ", "s", "t", "d", ":", ":", "r", "c", ":", ":", "R", "c", ";">>) >= 1
            <=> \E a \in DOMAIN ret.r.val.args : ret.r.val.args[a].type.need_rc)

C13_Witness ==
    /\ Emitted
    /\ NameText(arg) = <<"p">>
    /\ \A a \in DOMAIN ret.r.val.args :
          /\ ~ret.r.val.args[a].type.need_rc
          /\ ret.r.val.args[a].type.rust_type = <<"I", "n", "t">>
    /\ Occurrences(TextLines(ret.imports), <<"u", "s", "e", " ", "s", "t", "d", ":", ":", "r", "c", ":", ":", "R", "c", ";">>) = 1

(* C14.  The serializer emitted for a predicate with k Args renders the    *)
(* name of the predicate, an opening parenthesis, the k serialized         *)
(* arguments in declaration order joined by a comma and a space, a closing *)
(* parenthesis and a line feed, and no other character.                    *)
C14_SerializerText ==
    Emitted /\ "fzn" \in DOMAIN ret =>
        ret.fzn.out = NameText(arg) \o <<"(">> \o Join(ret.fzn.fields, <<",", " ">>) \o <<")">> \o <<"\n">>

C14_Witness ==
    /\ Emitted
    /\ "fzn" \in DOMAIN ret
    /\ EmittedBetween(ret.flatzinc, "\"", "\"") = <<"{}", "(", "{:?}", ")", ";", "\\n">>
    /\ NameText(arg) = <<"p">>
    /\ ret.fzn.fields = <<<<"x">>>>
    /\ ret.fzn.out = <<"p", "(", "\"", "x", "\"", ")", ";", "\n">>

C16_WidenNarrow ==
    Emitted /\ "conv" \in DOMAIN ret =>
        LET self == ret.r.val
            c    == ret.conv
        IN  /\ c.widened = [variant |-> self.rust_name, carries |-> c.value]
            /\ c.narrowed = Return(c.value)
            /\ c.narrowed_other.ok <=> c.other.variant = self.rust_name
            /\ c.narrowed_other.ok => c.narrowed_other.val = c.other.carries
            /\ EmittedBetween(ret.from_for_constraint, "impl From<", "> for Constraint {")
                   = self.rust_name
            /\ EmittedBetween(ret.try_from_constraint, "impl TryFrom<Constraint> for ", " {")
                   = self.rust_name
            /\ LET ls == CodeLines(ret.try_from_constraint)
               IN  \E i \in DOMAIN ls :
                      /\ ls[i] = <<"Constraint::">> \o self.rust_name \o <<"(c) => Ok(c),">>
                      /\ ls[i + 1] = <<"_ => anyhow::bail!(\"unable to downcast to {}\", Self::NAME),">>

C16_Witness ==
    /\ Emitted
    /\ "conv" \in DOMAIN ret
    /\ ret.r.val.rust_name = <<"I", "n", "t", "E", "q">>
    /\ ret.conv.widened.variant = <<"I", "n", "t", "E", "q">>
    /\ ret.conv.narrowed = Return("v2")
    /\ ret.conv.other.variant = <<"I", "n", "t", "e", "q">>
    /\ ~ret.conv.narrowed_other.ok

(* C17.  For every parsed predicate the Arg names, in the order written in *)
(* the line, are the names of the struct fields, of the constructor        *)
(* parameters, of the field initialiser, of the accessors, of the          *)
(* conversions of the factory and of the arguments of the serializer; each *)
(* struct field, parameter and accessor has the target type of its Arg.    *)
C17_SameNamesEverywhere ==
    Emitted =>
        LET specs == WrittenSpecs(arg)
            names == [i \in DOMAIN specs |-> DeclaredName(specs[i])]
            types == [i \in DOMAIN specs |-> DeclaredType(specs[i])]
        IN  /\ AllBetween(ret.struct, TAB[1], ": ") = names
            /\ AllBetween(ret.struct, ": ", ",") = types
            /\ Split(EmittedBetween(ret.new, "pub fn new(", ") -> Self {"), ", ")
                   = [i \in DOMAIN specs |-> names[i] \o <<": ">> \o types[i]]
            /\ Split(EmittedBetween(ret.new, "Self { ", " }"), ", ") = names
            /\ AllBetween(ret.getters, "pub fn ", "(&self) -> &") = names
            /\ AllBetween(ret.getters, "(&self) -> &", " {") = types
            /\ AllBetween(ret.getters, "&self.", "\n") = names
            /\ AllBetween(ret.try_from_item, "let ", " = ") = names
            /\ Split(EmittedBetween(ret.try_from_item, "Ok(Self::new(", "))"), ", ") = names
            /\ AllBetween(ret.flatzinc, "self.", ".fzn()") = names

C17_Witness ==
    /\ Emitted
    /\ WrittenSpecs(arg) = <<<<"a", "r", "r", "a", "y", " ", "[", "i", "n", "t", "]", " ", "o", "f", " ", "v", "a", "r", " ", "i", "n", "t", ":", " ", "x", "s", "_", "1">>, <<" ", "v", "a", "r", " ", "b", "o", "o", "l", ":", " ", "b", "s">>>>
    /\ AllBetween(ret.struct, TAB[1], ": ") = <<<<"x", "s", "_", "1">>, <<"b">>>>
    /\ AllBetween(ret.struct, ": ", ",") = <<<<"V", "e", "c", "<", "R", "c", "<", "V", "a", "r", "I", "n", "t", ">", ">">>, <<"R", "c", "<", "V", "a", "r", "B", "o", "o", "l", ">">>>>
    /\ AllBetween(ret.flatzinc, "self.", ".fzn()") = <<<<"x", "s", "_", "1">>, <<"b">>>>

(* C18.  The builtins-module unit of N predicates is N module declaration  *)
(* lines, one per predicate and by its identifier, then N re-export lines, *)
(* one per predicate and exposing its generated type name, both in input   *)
(* order, unsorted, a repeated name repeated.                              *)
C18_BuiltinsMod ==
    Assembled =>
        LET text == path_content[1][2]
            ls   == Split(text, "\n")
            n    == Len(KeptLines)
            ids  == [i \in 1..n |-> NameText(KeptLines[i])]
        IN  /\ Len(predicates) = n
            /\ Len(ls) = 2 * n + 2
            /\ \A i \in 1..n :
                  /\ ls[i] = <<"mod ">> \o ids[i] \o <<";">>
                  /\ ls[n + 1 + i] = <<"pub use ">> \o ids[i] \o <<"::">>
                                       \o predicates[i].rust_name \o <<";">>
                  /\ IsCamelOf(ids[i], predicates[i].rust_name)
            /\ ls[n + 1] = <<>>
            /\ ls[2 * n + 2] = <<>>

C18_Witness ==
    /\ pc = "done"
    /\ Len(predicates) = 2
    /\ AllBetween(path_content[1][2], "mod ", ";") = <<<<"i", "n", "t", "_", "e", "q">>, <<"c", "l", "o", "s", "e", "_", "t", "o">>>>
    /\ AllBetween(path_content[1][2], "::", ";") = <<<<"I", "n", "t", "E", "q">>, <<"C", "l", "o", "s", "e", "T", "o">>>>

(* C19.  The tagged-union unit declares one variant per predicate of the   *)
(* input, in input order, named by the generated type name of the          *)
(* predicate and carrying one value of that type.                          *)
C19_OneVariantEach ==
    Assembled =>
        LET text == path_content[2][2]
            ls   == CodeLines(text)
            n    == Len(KeptLines)
        IN  /\ Len(ls) = n + 6
            /\ ls[4] = <<"pub enum Constraint {">>
            /\ \A i \in 1..n :
                  /\ ls[4 + i] = predicates[i].rust_name \o <<"(">>
                                   \o predicates[i].rust_name \o <<"),">>
                  /\ IsCamelOf(NameText(KeptLines[i]), predicates[i].rust_name)
            /\ ls[n + 5] = <<"}">>
            /\ ls[n + 6] = <<>>

C19_Witness ==
    /\ pc = "done"
    /\ Len(predicates) = 2
    /\ AllBetween(path_content[2][2], TAB[1], "(") = <<<<"P">>, <<"P">>>>
    /\ AllBetween(path_content[2][2], "(", "),") = <<<<"P">>, <<"P">>>>

(* C20.  When the output path does not exist, is not a directory or is a   *)
(* directory that is not empty, the run fails in output_dir before main    *)
(* starts: the input is not read, no unit is built, the builtins directory *)
(* is not created, no file is written, and the run goes no further.        *)
C20_FailFast ==
    [][ /\ pc = "argparse" /\ BadOutput =>
            /\ pc' = "usage_error"
            /\ UNCHANGED <<out_kind, dirs, files, raw, lines, line_no, predicates,
                           path_content, out_idx, stdout>>
        /\ pc = "argparse" => raw = <<>> /\ predicates = <<>> /\ path_content = <<>>
        /\ pc # "usage_error" ]_vars

C20_Witness ==
    /\ pc = "usage_error"
    /\ out_kind = "dir"
    /\ dirs = {}
    /\ DOMAIN files = {Div(Path(OutputArg), <<"o", "l", "d", ".", "r", "s">>)}
    /\ raw = <<>>
    /\ path_content = <<>>

(* C21.  With the debug flag set a run leaves the filesystem as it was:    *)
(* the builtins directory is not created and no file is written.  Every    *)
(* unit that main assembles, the same as without the flag, is printed in   *)
(* the order of assembly, after a banner line that holds its path.         *)
C21_DebugPrintsOnly ==
    /\ [][debug => UNCHANGED <<dirs, files>>]_vars
    /\ [](debug /\ Assembled =>
            /\ dirs = {} /\ DOMAIN files = {}
            /\ path_content = main_path_content(predicates)
            /\ stdout = Printed(out_idx - 1)
            /\ pc = "done" => out_idx - 1 = Len(path_content)
            /\ \A n \in 1..(out_idx - 1) :
                  LET unit   == print_file(path_content[n][1], path_content[n][2])
                      banner == Split(unit, "\n")[1]
                  IN  /\ SubSeq(banner, 1, 2) = <<"//", " ">>
                      /\ OccursIn(PathStr(path_content[n][1]), banner)
                      /\ unit = banner \o NL \o path_content[n][2] \o NL)

C21_Witness ==
    /\ debug
    /\ pc = "done"
    /\ Len(path_content) = 5
    /\ dirs = {} /\ DOMAIN files = {}
    /\ stdout = Printed(5)
    /\ OccursIn(<<"o", "u", "t", "/", "b", "u", "i", "l", "t", "i", "n", "s", "/", "c", "l", "o", "s", "e", "_", "t", "o", ".", "r", "s">>, stdout)

(* C22.  When two lines of the input declare predicates of the same name,  *)
(* no error is raised, the two units have the same path, and after the     *)
(* write phase the file at that path holds the unit of the later line.     *)
C22_LaterWins ==
    \A i, j \in DOMAIN KeptLines :
        (/\ i < j
         /\ BadLines = {}
         /\ NameText(KeptLines[i]) = NameText(KeptLines[j])
         /\ \A m \in (j + 1)..Len(KeptLines) : NameText(KeptLines[m]) # NameText(KeptLines[j]))
        => /\ pc # "ParsingError"
           /\ Assembled =>
                 /\ path_content[3 + i][1] = path_content[3 + j][1]
                 /\ path_content[3 + i][2] = Predicate_rust_file(Predicate_from_str(KeptLines[i]).val)
                 /\ path_content[3 + j][2] = Predicate_rust_file(Predicate_from_str(KeptLines[j]).val)
           /\ pc = "done" /\ ~debug =>
                 files[path_content[3 + j][1]]
                     = Predicate_rust_file(Predicate_from_str(KeptLines[j]).val)

C22_Witness ==
    /\ pc = "done"
    /\ ~debug
    /\ lines = <<Line(<<"p">>, <<<<"b", "o", "o", "l", ":", " ", "x">>>>), Line(<<"p">>, <<<<"v", "a", "r", " ", "b", "o", "o", "l", ":", " ", "y", "y">>>>)>>
    /\ Len(path_content) = 5
    /\ Cardinality(DOMAIN files) = 4
    /\ files[Div(builtins_dir, <<"p", ".", "r", "s">>)] = Predicate_rust_file(predicates[2])
    /\ files[Div(builtins_dir, <<"p", ".", "r", "s">>)] # Predicate_rust_file(predicates[1])

(* C23.  An empty line in the input is not tolerated: Predicate.from_file  *)
(* raises ParsingError for every input that holds one, at that line if not *)
(* before, and the run produces no unit.                                   *)
C23_BlankLine ==
    \A k \in DOMAIN lines :
        lines[k] = <<>> =>
            /\ ~Predicate_from_file(raw).ok
            /\ ~Predicate_from_str(lines[k]).ok
            /\ pc \in {"from_file", "ParsingError"}
            /\ line_no <= k
            /\ NothingProduced

C23_Witness ==
    /\ pc = "ParsingError"
    /\ Len(lines) = 2
    /\ lines[2] = <<>>
    /\ line_no = 2
    /\ Len(predicates) = 1
    /\ path_content = <<>>

(* C24.  The import block of a predicate depends only on the set of the    *)
(* descriptors of its Args: permuting or repeating Args gives the same     *)
(* block, in which the conversion-function imports come in sorted order,   *)
(* then the fixed imports of Constraint, Model and Fzn, then the type       *)
(* imports in sorted order.                                                *)
C24_ImportsOfSet ==
    Emitted =>
        LET self == ret.r.val
            ls   == TextLines(ret.imports)
            ds   == DescriptorsOf(self.args)
            fns  == {d.rust_expr_fn : d \in ds}
            tys  == {d.rust_import : d \in ds} \ {<<>>}
            f    == Cardinality(fns)
            t    == Cardinality(tys)
        IN  /\ \A q \in Rearranged(self.args, Len(self.args) + 1) :
                  rust_imports([self EXCEPT !.args = q]) = ret.imports
            /\ Len(ls) = f + t + 8
            /\ SubSeq(ls, 1, 4) = <<<<"u", "s", "e", " ", "s", "t", "d", ":", ":", "r", "c", ":", ":", "R", "c", ";">>, <<>>, <<"u", "s", "e", " ", "f", "l", "a", "t", "z", "i", "n", "c", ":", ":", "C", "o", "n", "s", "t", "r", "a", "i", "n", "t", "I", "t", "e", "m", ";">>, <<>>>>
            /\ {ls[4 + i] : i \in 1..f} = {<<"u", "s", "e", " ", "c", "r", "a", "t", "e", ":", ":", "f", "z", "n", ":", ":", "p", "a", "r", "s", "e", "r", ":", ":">> \o x \o <<";">> : x \in fns}
            /\ \A i \in 1..(f - 1) : StrLess(ls[4 + i], ls[5 + i])
            /\ SubSeq(ls, f + 5, f + 7) = <<<<"u", "s", "e", " ", "c", "r", "a", "t", "e", ":", ":", "f", "z", "n", ":", ":", "c", "o", "n", "s", "t", "r", "a", "i", "n", "t", ":", ":", "C", "o", "n", "s", "t", "r", "a", "i", "n", "t", ";">>,
                                            <<"u", "s", "e", " ", "c", "r", "a", "t", "e", ":", ":", "f", "z", "n", ":", ":", "m", "o", "d", "e", "l", ":", ":", "M", "o", "d", "e", "l", ";">>,
                                            <<"u", "s", "e", " ", "c", "r", "a", "t", "e", ":", ":", "f", "z", "n", ":", ":", "F", "z", "n", ";">>>>
            /\ {ls[f + 7 + i] : i \in 1..t} = {RStrip(x) : x \in tys}
            /\ \A i \in 1..(t - 1) : StrLess(ls[f + 7 + i], ls[f + 8 + i])
            /\ ls[f + t + 8] = <<>>

C24_Witness ==
    /\ Emitted
    /\ Len(ret.r.val.args) = 2
    /\ ret.r.val.args[1].type.rust_expr_fn = <<"v", "a", "r", "_", "b", "o", "o", "l", "_", "f", "r", "o", "m", "_", "e", "x", "p", "r">>
    /\ ret.r.val.args[2].type.rust_expr_fn = <<"i", "n", "t", "_", "f", "r", "o", "m", "_", "e", "x", "p", "r">>
    /\ TextLines(ret.imports)[5] = <<"u", "s", "e", " ", "c", "r", "a", "t", "e", ":", ":", "f", "z", "n", ":", ":", "p", "a", "r", "s", "e", "r", ":", ":", "i", "n", "t", "_", "f", "r", "o", "m", "_", "e", "x", "p", "r", ";">>
    /\ TextLines(ret.imports)[6] = <<"u", "s", "e", " ", "c", "r", "a", "t", "e", ":", ":", "f", "z", "n", ":", ":", "p", "a", "r", "s", "e", "r", ":", ":", "v", "a", "r", "_", "b", "o", "o", "l", "_", "f", "r", "o", "m", "_", "e", "x", "p", "r", ";">>
    /\ TextLines(ret.imports)[10] = <<"u", "s", "e", " ", "c", "r", "a", "t", "e", ":", ":", "f", "z", "n", ":", ":", "t", "y", "p", "e", "s", ":", ":", "I", "n", "t", ";">>
    /\ TextLines(ret.imports)[11] = <<"u", "s", "e", " ", "c", "r", "a", "t", "e", ":", ":", "f", "z", "n", ":", ":", "v", "a", "r", ":", ":", "V", "a", "r", "B", "o", "o", "l", ";">>

(* C25.  In the registry need_rc is true for exactly the four tokens of    *)
(* decision variables and is_array for exactly the four array tokens; two  *)
(* descriptors of the same target type have the same flags, which are      *)
(* whether the target type holds Rc and whether it holds Vec.              *)
C25_Flags ==
    Returned("ArgTypeFactory.from_str") /\ ret.r.ok =>
        LET d == ret.r.val
        IN  /\ d.need_rc <=> arg \in { <<"v", "a", "r", " ", "i", "n", "t">>, <<"v", "a", "r", " ", "b", "o", "o", "l">>,
                                       <<"a", "r", "r", "a", "y", " ", "[", "i", "n", "t", "]", " ", "o", "f", " ", "v", "a", "r", " ", "i", "n", "t">>,
                                       <<"a", "r", "r", "a", "y", " ", "[", "i", "n", "t", "]", " ", "o", "f", " ", "v", "a", "r", " ", "b", "o", "o", "l">> }
            /\ d.is_array <=> arg \in { <<"a", "r", "r", "a", "y", " ", "[", "i", "n", "t", "]", " ", "o", "f", " ", "i", "n", "t">>, <<"a", "r", "r", "a", "y", " ", "[", "i", "n", "t", "]", " ", "o", "f", " ", "b", "o", "o", "l">>,
                                        <<"a", "r", "r", "a", "y", " ", "[", "i", "n", "t", "]", " ", "o", "f", " ", "v", "a", "r", " ", "i", "n", "t">>,
                                        <<"a", "r", "r", "a", "y", " ", "[", "i", "n", "t", "]", " ", "o", "f", " ", "v", "a", "r", " ", "b", "o", "o", "l">> }
            /\ d.need_rc <=> OccursIn(<<"R", "c">>, d.rust_type)
            /\ d.is_array <=> OccursIn(<<"V", "e", "c">>, d.rust_type)
            /\ \A i \in DOMAIN ARG_TYPE_FACTORY :
                  ARG_TYPE_FACTORY[i].rust_type = d.rust_type =>
                      /\ ARG_TYPE_FACTORY[i].need_rc = d.need_rc
                      /\ ARG_TYPE_FACTORY[i].is_array = d.is_array

C25_Witness ==
    /\ Returned("ArgTypeFactory.from_str")
    /\ ret.r.ok
    /\ arg = <<"a", "r", "r", "a", "y", " ", "[", "i", "n", "t", "]", " ", "o", "f", " ", "v", "a", "r", " ", "b", "o", "o", "l">>
    /\ ret.r.val.need_rc
    /\ ret.r.val.is_array
    /\ ~ArgTypeFactory_from_str(<<"a", "r", "r", "a", "y", " ", "[", "i", "n", "t", "]", " ", "o", "f", " ", "i", "n", "t">>).val.need_rc
    /\ ~ArgTypeFactory_from_str(<<"v", "a", "r", " ", "i", "n", "t">>).val.is_array

(* C26.  If the argument names written in an accepted line are pairwise    *)
(* distinct, the stored Arg names are pairwise distinct and the generated  *)
(* struct has no two fields of the same name.                              *)
C26_DistinctNames ==
    Emitted =>
        LET specs   == WrittenSpecs(arg)
            written == [i \in DOMAIN specs |-> Trimmed(RightOfColon(specs[i]))]
            stored  == [i \in DOMAIN ret.r.val.args |-> ret.r.val.args[i].identifier]
        IN  PairwiseDistinct(written) =>
                /\ PairwiseDistinct(stored)
                /\ PairwiseDistinct(AllBetween(ret.struct, TAB[1], ": "))

C26_Witness ==
    /\ Emitted
    /\ NameText(arg) = <<"p">>
    /\ WrittenSpecs(arg) = <<<<" ", "v", "a", "r", " ", "i", "n", "t", ":", " ", "b">>, <<" ", "v", "a", "r", " ", "b", "o", "o", "l", ":", " ", "b", "s">>>>
    /\ ret.r.val.args[1].identifier = <<"b">>
    /\ ret.r.val.args[2].identifier = <<"b">>
    /\ AllBetween(ret.struct, TAB[1], ": ") = <<<<"b">>, <<"b">>>>

(* C27.  For an input whose predicate names are pairwise distinct, the     *)
(* generated type names are pairwise distinct and the tagged-union unit    *)
(* declares no two variants of the same name.                              *)
C27_DistinctVariants ==
    Assembled /\ PairwiseDistinct(DeclaredNames) =>
        /\ PairwiseDistinct([i \in DOMAIN predicates |-> predicates[i].rust_name])
        /\ PairwiseDistinct(AllBetween(path_content[2][2], TAB[1], "("))

C27_Witness ==
    /\ pc = "done"
    /\ DeclaredNames = <<<<"p">>, <<"P">>>>
    /\ predicates[1].rust_name = predicates[2].rust_name
    /\ AllBetween(path_content[2][2], TAB[1], "(") = <<<<"P">>, <<"P">>>>

(* C28.  For an input whose predicate names are pairwise distinct, the     *)
(* paths of the units assembled by main are pairwise distinct, so that no  *)
(* unit is overwritten during the write phase.                             *)
C28_DistinctPaths ==
    Assembled /\ PairwiseDistinct(DeclaredNames) =>
        /\ PairwiseDistinct([i \in DOMAIN path_content |-> path_content[i][1]])
        /\ pc = "done" /\ ~debug =>
              \A i \in DOMAIN path_content : files[path_content[i][1]] = path_content[i][2]

C28_Witness ==
    /\ pc = "done"
    /\ ~debug
    /\ DeclaredNames = <<<<"m", "o", "d">>>>
    /\ Len(path_content) = 4
    /\ path_content[1][1] = path_content[4][1]
    /\ Cardinality(DOMAIN files) = 3
    /\ files[Div(builtins_dir, <<"m", "o", "d", ".", "r", "s">>)] = Predicate_rust_file(predicates[1])
    /\ files[Div(builtins_dir, <<"m", "o", "d", ".", "r", "s">>)] # BuiltinsMod_rust_file(predicates)

(* C29.  Every Predicate returned by Predicate.from_str has at least one   *)
(* Arg, so NB_ARGS is at least 1: a line with nothing between its          *)
(* parentheses is rejected with ParsingError.                              *)
C29_AtLeastOneArg ==
    Returned("Predicate.from_str") =>
        /\ ret.r.ok => Len(ret.r.val.args) >= 1
        /\ "impl" \in DOMAIN ret =>
              DecimalValue(EmittedBetween(ret.impl, "pub const NB_ARGS: usize = ", ";")) >= 1
        /\ HasNamePart(arg) /\ ArgsText(arg) = <<>> => ~ret.r.ok
        /\ arg = <<"p", "r", "e", "d", "i", "c", "a", "t", "e", " ", "p", "(", ")">> => ~ret.r.ok

C29_Witness ==
    /\ Returned("Predicate.from_str")
    /\ arg = <<"p", "r", "e", "d", "i", "c", "a", "t", "e", " ", "p", "(", ")">>
    /\ ~ret.r.ok

(* C30.  Rendering a parsed Predicate back to text is a stable canonical   *)
(* form: for every accepted line s, str(Predicate.from_str(s)) is itself   *)
(* accepted, and parsing it gives the same name, the same Arg types and    *)
(* the same Arg names as Predicate.from_str(s); rendering that again gives *)
(* the same text.  The fix-up rule changes no stored name, and every       *)
(* stored name is a valid identifier.                                      *)
C30_RoundTrip ==
    Returned("Predicate.from_str") /\ "str" \in DOMAIN ret =>
        LET first == ret.r.val
        IN  /\ ret.again.ok
            /\ LET again == ret.again.val
               IN  /\ again.identifier = first.identifier
                   /\ Len(again.args) = Len(first.args)
                   /\ \A i \in DOMAIN first.args :
                         /\ again.args[i].type = first.args[i].type
                         /\ again.args[i].identifier = first.args[i].identifier
                   /\ Predicate_str(again) = ret.str
            /\ \A i \in DOMAIN first.args :
                  /\ fix_as_bs(first.args[i].identifier) = first.args[i].identifier
                  /\ WellFormedIdent(first.args[i].identifier)

C30_Witness ==
    /\ Returned("Predicate.from_str")
    /\ arg = <<"p", "r", "e", "d", "i", "c", "a", "t", "e", " ", "p", "(", " ", "v", "a", "r", " ", "b", "o", "o", "l", ":", " ", "b", "s", ")">>
    /\ "str" \in DOMAIN ret
    /\ ret.str = <<"p", "r", "e", "d", "i", "c", "a", "t", "e", " ", "p", "(", "v", "a", "r", " ", "b", "o", "o", "l", ":", " ", "b", ")">>
    /\ ret.again.ok
    /\ ret.again.val = ret.r.val

=============================================================================
